---- MODULE Spec2Model ----
(***************************************************************************)
(* DockWarden: the update loop (internal/updater), the health watcher      *)
(* (internal/health), the engine adapter (internal/docker), the scheduler  *)
(* (internal/scheduler) and the supervisor (cmd: run) as one state         *)
(* machine.  Strings the code takes apart (image references, container     *)
(* names) are sequences of one-character strings; the empty Go string is   *)
(* the empty sequence.                                                     *)
(***************************************************************************)
EXTENDS Integers, Sequences, FiniteSets, TLC

(***************************************************************************)
(* Bounds of the model.                                                    *)
(***************************************************************************)
\* saturation of the history counter of consecutive unhealthy observations
MaxStreak == 8
\* containers of the fleet an update cycle works on
NumContainers == 6
\* containers of a fleet whose image reference is not pinned
MaxFloating == 2
\* the same, when the cycle runs with rolling-restart (workers are sequential)
MaxRollingFloating == 3
\* image versions a registry publishes for one reference
MaxVersion == 2
\* update cycles started by one source that the model lets be in flight
MaxInFlight == 2
\* engine calls of one update cycle that the model lets fail for no reason
\* the engine's state gives
MaxFaults == 1

\* Updater.Run invocations, one after the other, in a behaviour
MaxCycles == 2

\* recreations of the watched container in a behaviour of SpecRecreate
MaxRecreates == 1

\* cycles that reach their summary in a behaviour of SpecSupervisor
MaxSummaries == 2

\* containers in a list answer given to the filter in SpecFilter
MaxListed == 3

\* container ids whose entries the operations on the watcher's locks contend for
MaxLocked == 2

\* failures of the watcher's list call, and of its restart call, in a behaviour
MaxWatchFaults == 1

\* failures of the watcher's restart call in a behaviour of SpecTicks
MaxRestartFaults == 5

(***************************************************************************)
(* Program constants.                                                      *)
(***************************************************************************)
\* health.MaxRestartAttempts
MaxRestartAttempts == 5
\* maxConcurrency of processContainersConcurrently
DefaultConcurrency == 5
\* maxConcurrency under rolling restart
RollingConcurrency == 1

\* what starts Updater.Run: run() itself (run-once, the first interval run),
\* the interval goroutine, a cron job, the API handler, the UI handler
RunSources == {"main", "ticker", "cron", "api", "ui"}

(***************************************************************************)
(* Go string functions on sequences of characters.                         *)
(***************************************************************************)
\* s[from:to], Go's half-open, 0-based slice
Slice(s, from, to) == [i \in 1..(to - from) |-> s[from + i]]

\* strings.HasPrefix at 0-based offset i
MatchAt(s, sub, i) ==
    /\ i + Len(sub) <= Len(s)
    /\ \A k \in 1..Len(sub) : s[i + k] = sub[k]

\* strings.Index: 0-based offset of the first occurrence, -1 when absent
StrIndex(s, sub) ==
    LET hits == {i \in 0..Len(s) : MatchAt(s, sub, i)}
    IN  IF hits = {} THEN -1 ELSE CHOOSE i \in hits : \A j \in hits : i <= j

\* strings.LastIndex
StrLastIndex(s, sub) ==
    LET hits == {i \in 0..Len(s) : MatchAt(s, sub, i)}
    IN  IF hits = {} THEN -1 ELSE CHOOSE i \in hits : \A j \in hits : i >= j

\* strings.Contains
StrContains(s, sub) == StrIndex(s, sub) # -1

\* strings.TrimPrefix
TrimPrefix(s, prefix) ==
    IF MatchAt(s, prefix, 0) THEN Slice(s, Len(prefix), Len(s)) ELSE s

UpperLetters ==
    <<"A","B","C","D","E","F","G","H","I","J","K","L","M",
      "N","O","P","Q","R","S","T","U","V","W","X","Y","Z">>

LowerLetters ==
    <<"a","b","c","d","e","f","g","h","i","j","k","l","m",
      "n","o","p","q","r","s","t","u","v","w","x","y","z">>

\* strings.ToLower
ToLower(s) ==
    [i \in 1..Len(s) |->
        IF \E k \in 1..26 : UpperLetters[k] = s[i]
        THEN LowerLetters[CHOOSE k \in 1..26 : UpperLetters[k] = s[i]]
        ELSE s[i]]

(***************************************************************************)
(* internal/updater: pinned image references.                              *)
(***************************************************************************)
floatingTags ==
    { <<"l","a","t","e","s","t">>, <<"e","d","g","e">>, <<"m","a","i","n">>,
      <<"m","a","s","t","e","r">>, <<"d","e","v">>,
      <<"d","e","v","e","l","o","p">>,
      <<"d","e","v","e","l","o","p","m","e","n","t">>,
      <<"n","i","g","h","t","l","y">>, <<"s","t","a","b","l","e">>,
      <<"b","e","t","a">>, <<"a","l","p","h","a">>,
      <<"c","a","n","a","r","y">>, <<"r","c">>, <<"n","e","x","t">>,
      <<"p","r","e","v","i","e","w">> }

extractTag(imageName) ==
    LET at     == StrIndex(imageName, <<"@">>)
        name   == IF at # -1 THEN Slice(imageName, 0, at) ELSE imageName
        colon  == StrLastIndex(name, <<":">>)
        after  == Slice(name, colon + 1, Len(name))
    IN  IF colon = -1 THEN <<>>
        ELSE IF StrContains(after, <<"/">>) THEN <<>>
        ELSE after

isPinnedTag(imageName) ==
    IF StrContains(imageName, <<"@","s","h","a","2","5","6",":">>) THEN TRUE
    ELSE LET tag == extractTag(imageName)
         IN  IF tag = <<>> THEN FALSE
             ELSE ToLower(tag) \notin floatingTags

(***************************************************************************)
(* The image references of the model, as the text the code parses.         *)
(***************************************************************************)
\* "app:latest", "web", "db:15.3", "r:5000/api"
ImageTable ==
    << <<"a","p","p",":","l","a","t","e","s","t">>,
       <<"w","e","b">>,
       <<"d","b",":","1","5",".","3">>,
       <<"r",":","5","0","0","0","/","a","p","i">> >>

ImageRefs == 1..Len(ImageTable)

(***************************************************************************)
(* Image references built from their parts, for the pinned check alone.   *)
(***************************************************************************)
\* repository paths: "a", and "r:50/a" behind a registry with a port
PathParts == << <<"a">>, <<"r",":","5","0","/","a">> >>

\* tag parts as written in a reference: none, an empty tag, the tags of the
\* floating set, two of them in other case, three version-like tags; with
\* the tag each spells and whether the floating set holds it
TagParts ==
    << [text |-> <<>>, tag |-> <<>>, floating |-> FALSE],
       [text |-> <<":">>, tag |-> <<>>, floating |-> FALSE],
       [text |-> <<":","l","a","t","e","s","t">>, tag |-> <<"l","a","t","e","s","t">>, floating |-> TRUE],
       [text |-> <<":","e","d","g","e">>, tag |-> <<"e","d","g","e">>, floating |-> TRUE],
       [text |-> <<":","m","a","i","n">>, tag |-> <<"m","a","i","n">>, floating |-> TRUE],
       [text |-> <<":","m","a","s","t","e","r">>, tag |-> <<"m","a","s","t","e","r">>, floating |-> TRUE],
       [text |-> <<":","d","e","v">>, tag |-> <<"d","e","v">>, floating |-> TRUE],
       [text |-> <<":","d","e","v","e","l","o","p">>, tag |-> <<"d","e","v","e","l","o","p">>, floating |-> TRUE],
       [text |-> <<":","d","e","v","e","l","o","p","m","e","n","t">>, tag |-> <<"d","e","v","e","l","o","p","m","e","n","t">>, floating |-> TRUE],
       [text |-> <<":","n","i","g","h","t","l","y">>, tag |-> <<"n","i","g","h","t","l","y">>, floating |-> TRUE],
       [text |-> <<":","s","t","a","b","l","e">>, tag |-> <<"s","t","a","b","l","e">>, floating |-> TRUE],
       [text |-> <<":","b","e","t","a">>, tag |-> <<"b","e","t","a">>, floating |-> TRUE],
       [text |-> <<":","a","l","p","h","a">>, tag |-> <<"a","l","p","h","a">>, floating |-> TRUE],
       [text |-> <<":","c","a","n","a","r","y">>, tag |-> <<"c","a","n","a","r","y">>, floating |-> TRUE],
       [text |-> <<":","r","c">>, tag |-> <<"r","c">>, floating |-> TRUE],
       [text |-> <<":","n","e","x","t">>, tag |-> <<"n","e","x","t">>, floating |-> TRUE],
       [text |-> <<":","p","r","e","v","i","e","w">>, tag |-> <<"p","r","e","v","i","e","w">>, floating |-> TRUE],
       [text |-> <<":","L","a","t","e","s","t">>, tag |-> <<"L","a","t","e","s","t">>, floating |-> TRUE],
       [text |-> <<":","R","C">>, tag |-> <<"R","C">>, floating |-> TRUE],
       [text |-> <<":","d","e","v","e","l">>, tag |-> <<"d","e","v","e","l">>, floating |-> FALSE],
       [text |-> <<":","1",".","0">>, tag |-> <<"1",".","0">>, floating |-> FALSE],
       [text |-> <<":","v","1">>, tag |-> <<"v","1">>, floating |-> FALSE] >>

\* digest parts: none, a sha256 digest, a sha512 digest
DigestParts ==
    << <<>>, <<"@","s","h","a","2","5","6",":","a","b">>,
       <<"@","s","h","a","5","1","2",":","a","b">> >>

\* the references built from the parts are numbered after those of ImageTable
BuiltRefs ==
    (Len(ImageTable) + 1) ..
        (Len(ImageTable) + Len(PathParts) * Len(TagParts) * Len(DigestParts))

\* the parts of a built reference
PathOf(ref) ==
    PathParts[((ref - Len(ImageTable) - 1) \div (Len(TagParts) * Len(DigestParts))) + 1]

TagOf(ref) ==
    TagParts[(((ref - Len(ImageTable) - 1) \div Len(DigestParts)) % Len(TagParts)) + 1]

DigestOf(ref) == DigestParts[((ref - Len(ImageTable) - 1) % Len(DigestParts)) + 1]

\* Container.Image, the text of a reference
ImageName(ref) ==
    IF ref <= Len(ImageTable) THEN ImageTable[ref]
    ELSE PathOf(ref) \o TagOf(ref).text \o DigestOf(ref)

\* the empty string, as an image id
NoImageID == <<>>

\* the content id of version v of reference ref
ImageIDOf(ref, v) == <<"img", ref, v>>

\* the registry digest of version v of reference ref
RepoDigestOf(ref, v) == <<"sha256", ref, v>>

HealthStatuses == {"", "healthy", "unhealthy", "starting"}

\* the label sets a container of the model carries
LabelSets ==
    { <<>>,
      [k \in {"dockwarden.watch.enable", "dockwarden.update.enable"} |-> "false"],
      [k \in {"dockwarden.enable", "dockwarden.scope"} |->
          IF k = "dockwarden.enable" THEN "true" ELSE "prod"] }

VARIABLES
    cfg,        \* config.Config, fixed after startup
    ctrs,       \* the engine's containers: id -> container
    images,     \* the engine's local image store: reference -> image
    upstream,   \* the registry: reference -> published version
    nextID,     \* the id the engine gives the next created container
    states,     \* Watcher.states: container id -> containerState
    pending,    \* the snapshots of the running tick whose goroutine has not finished
    tickRaw,    \* the engine's list answer of the running tick: id -> health
    last,       \* history: what the latest processContainer of an id did
    streak,     \* history: consecutive unhealthy observations of an id
    errs,       \* history: the watcher's list calls and restart calls that failed
    phase,      \* Updater.Run: "idle", "running", "done" (returned nil) or
                \* "failed" (returned an error)
    workers,    \* the goroutines of processContainersConcurrently: id -> worker
    results,    \* the results sent on resultsChan and collected from it, in
                \* the order of the sends
    stats,      \* Updater.totalUpdated, Updater.totalFailed, Updater.lastRun
    faults,     \* history: the engine calls that failed in the running cycle
    cycle,      \* Updater.Run's locals of the latest cycle: the list answer
                \* (containers) and what the filter kept of it (filtered)
    sup,        \* the supervisor: where run() is, the Updater.Run invocations
                \* in flight per caller, where the interval goroutine and the
                \* watcher's goroutine are; history of the returned cycles
    mu          \* the watcher's locks: who holds statesMu and each entry's mu,
                \* and where each operation on them is

watcherVars == <<states, pending, tickRaw, last, streak, errs, mu>>

engineVars == <<ctrs, images, upstream, nextID>>

updaterVars == <<phase, workers, results, stats, faults, cycle>>

vars ==
    <<cfg, ctrs, images, upstream, nextID, states, pending, tickRaw, last, streak, errs,
      phase, workers, results, stats, faults, cycle, sup, mu>>

\* f with f[k] set to v, k added to its domain when new
Put(f, k, v) == [x \in DOMAIN f \cup {k} |-> IF x = k THEN v ELSE f[x]]

(***************************************************************************)
(* internal/docker: the Container view.                                    *)
(***************************************************************************)
GetLabel(c, key) == IF key \in DOMAIN c.Labels THEN c.Labels[key] ELSE ""

HasLabel(c, key) == key \in DOMAIN c.Labels

IsEnabled(c, labelName, defaultEnabled) ==
    IF ~HasLabel(c, labelName) THEN defaultEnabled
    ELSE GetLabel(c, labelName) = "true"

UpdateEnabled(c) ==
    LET label == GetLabel(c, "dockwarden.update.enable")
    IN  IF label = "" THEN TRUE ELSE label = "true"

WatchEnabled(c) ==
    LET label == GetLabel(c, "dockwarden.watch.enable")
    IN  IF label = "" THEN TRUE ELSE label = "true"

GetScope(c) == GetLabel(c, "dockwarden.scope")

IsRunning(c) == c.State = "running"

\* mutant: a container still starting counts as healthy
IsHealthyOrStarting(c) == c.HealthStatus # "unhealthy"

IsHealthy(c) == c.HealthStatus = "" \/ c.HealthStatus = "healthy"

IsUnhealthy(c) == c.HealthStatus = "unhealthy"

\* the Status text of the engine's list answer ("Up 5 minutes (unhealthy)")
StatusText(running, health) ==
    IF ~running THEN <<"Exited">>
    ELSE IF health = "" THEN <<"Up">>
    ELSE <<"Up", health>>

\* types.Container, one element of the engine's ContainerList answer
APIContainer(id) ==
    [ ID      |-> id,
      Names   |-> << ctrs[id].Name >>,
      Image   |-> ctrs[id].Image,
      ImageID |-> ctrs[id].ImageID,
      State   |-> IF ctrs[id].Running THEN "running" ELSE "exited",
      Status  |-> StatusText(ctrs[id].Running, ctrs[id].Health),
      Labels  |-> ctrs[id].Labels ]

containerFromAPI(c) ==
    [ ID |-> c.ID,
      Name |-> IF Len(c.Names) > 0 THEN TrimPrefix(c.Names[1], <<"/">>) ELSE <<>>,
      Image |-> c.Image, ImageID |-> c.ImageID, State |-> c.State,
      Status |-> c.Status, Labels |-> c.Labels,
      HealthStatus |-> "" ]

\* dockerClient.ListContainers: running containers only unless all is asked
ListContainers(all) ==
    { containerFromAPI(APIContainer(id)) :
        id \in {i \in DOMAIN ctrs : all \/ cfg.IncludeStopped \/ ctrs[i].Running} }

\* the list answer as the slice the engine returns: one element per id, in
\* the order of the ids
RECURSIVE InListOrder(_)
InListOrder(list) ==
    IF list = {} THEN <<>>
    ELSE LET first == CHOOSE c \in list : \A d \in list : c.ID <= d.ID
         IN  <<first>> \o InListOrder(list \ {first})

\* the elements of a sequence
Range(seq) == {seq[i] : i \in DOMAIN seq}

\* dockerClient.RestartContainer: the engine state after the call
RestartContainer(id) ==
    IF id \in DOMAIN ctrs
    THEN [ctrs EXCEPT ![id].Running = TRUE,
                      ![id].Health = IF @ = "" THEN "" ELSE "starting"]
    ELSE ctrs

(***************************************************************************)
(* internal/docker: images and the calls of RecreateContainer.             *)
(***************************************************************************)
\* version v of reference ref as the engine stores it once pulled and tagged
PulledImage(ref, v) ==
    [ RepoTags |-> {ref}, RepoDigests |-> << <<ref, RepoDigestOf(ref, v)>> >> ]

\* the ids of the stored images tagged ref (none or one)
TaggedIDs(ref) == {id \in DOMAIN images : ref \in images[id].RepoTags}

\* ImageInspect by reference succeeds
HasImage(ref) == TaggedIDs(ref) # {}

ImageOf(ref) == CHOOSE id \in TaggedIDs(ref) : TRUE

\* dockerClient.GetImageDigest: the digest part of the first repo digest
\* (split at "@"), the image id when there is none
GetImageDigest(ref) ==
    LET inspect == [ID |-> ImageOf(ref), RepoDigests |-> images[ImageOf(ref)].RepoDigests]
    IN  IF Len(inspect.RepoDigests) > 0 /\ Len(inspect.RepoDigests[1]) = 2
        THEN inspect.RepoDigests[1][2]
        ELSE inspect.ID

\* dockerClient.PullImage: the store after the registry's image is pulled and
\* the reference moved to it
PullImage(ref) ==
    LET new      == ImageIDOf(ref, upstream[ref])
        untagged == [id \in DOMAIN images |->
                        [images[id] EXCEPT !.RepoTags = @ \ {ref}]]
    IN  Put(untagged, new, PulledImage(ref, upstream[ref]))

\* ImageRemove without force succeeds: the image is stored and no container
\* was created from it
CanRemoveImage(imageID) ==
    /\ imageID \in DOMAIN images
    /\ \A id \in DOMAIN ctrs : ctrs[id].ImageID # imageID

\* dockerClient.RemoveImage: the store after the call
RemoveImage(imageID) == [id \in DOMAIN images \ {imageID} |-> images[id]]

\* ContainerInspect: what RecreateContainer and containerFromInspect read
ContainerInspect(id) ==
    [ ID |-> id, Name |-> ctrs[id].Name, Image |-> ctrs[id].ImageID,
      Running |-> ctrs[id].Running, Health |-> ctrs[id].Health,
      Config |-> [Image |-> ctrs[id].Image, Labels |-> ctrs[id].Labels,
                  Healthcheck |-> ctrs[id].Health # ""],
      HostConfig |-> [NetworkMode |-> ctrs[id].NetworkMode],
      NetworkSettings |-> [Networks |-> ctrs[id].Networks] ]

containerFromInspect(info) ==
    [ ID |-> info.ID, Name |-> TrimPrefix(info.Name, <<"/">>),
      Image |-> info.Config.Image, ImageID |-> info.Image,
      State |-> IF info.Running THEN "running" ELSE "exited",
      Status |-> IF info.Running THEN "running" ELSE "exited",
      Labels |-> info.Config.Labels, HealthStatus |-> info.Health ]

\* ContainerCreate(inspect.Config, inspect.HostConfig, nil, nil, containerName):
\* the container the engine creates, from the image the reference now names.
\* The networking config of the request is nil, so the engine attaches the
\* container to the network of its host config only, with an endpoint of the
\* engine's own making (no alias given, address and MAC assigned afresh).
ContainerCreate(config, hostConfig, containerName) ==
    [ Name |-> <<"/">> \o containerName, Image |-> config.Image,
      ImageID |-> ImageOf(config.Image), Running |-> FALSE,
      Health |-> IF config.Healthcheck THEN "starting" ELSE "",
      Labels |-> config.Labels,
      NetworkMode |-> hostConfig.NetworkMode,
      Networks |-> [n \in {hostConfig.NetworkMode} |-> [Aliases |-> {}]] ]

(***************************************************************************)
(* internal/updater: one update cycle.                                     *)
(***************************************************************************)
\* mutant: a name is disabled when a disabled name is its prefix
filterContainersByPrefix(containers) ==
    LET kept(ctr) ==
          /\ \A disabled \in cfg.DisableContainers :
                Slice(ctr.Name, 1, Len(disabled)) # disabled
          /\ ~(cfg.LabelEnable /\ ~IsEnabled(ctr, cfg.LabelName, FALSE))
          /\ ~(cfg.Scope # "" /\ GetScope(ctr) # cfg.Scope)
          /\ ~(~IsRunning(ctr) /\ ~cfg.IncludeStopped)
    IN  SelectSeq(containers, kept)

\* filterContainers: the loop appends, in the order of the list, every
\* container none of the four conditions skips
filterContainers(containers) ==
    LET kept(ctr) ==
          /\ \A disabled \in cfg.DisableContainers : ctr.Name # disabled
          /\ ~(cfg.LabelEnable /\ ~IsEnabled(ctr, cfg.LabelName, FALSE))
          /\ ~(cfg.Scope # "" /\ GetScope(ctr) # cfg.Scope)
          /\ ~(~IsRunning(ctr) /\ ~cfg.IncludeStopped)
    IN  SelectSeq(containers, kept)

\* mutant: rolling restart does not lower the limit
maxConcurrencyIgnoresRolling == DefaultConcurrency

\* processContainersConcurrently: the capacity of the semaphore
maxConcurrency ==
    IF cfg.RollingRestart THEN RollingConcurrency ELSE DefaultConcurrency

\* mutant: a result starts as updated
NewResultUpdated(ctr) ==
    [ ContainerID |-> ctr.ID, ContainerName |-> ctr.Name,
      OldImageID |-> ctr.ImageID, NewImageID |-> NoImageID,
      Updated |-> TRUE, Error |-> "" ]

\* processContainer: the result it starts from
NewResult(ctr) ==
    [ ContainerID |-> ctr.ID, ContainerName |-> ctr.Name,
      OldImageID |-> ctr.ImageID, NewImageID |-> NoImageID,
      Updated |-> FALSE, Error |-> "" ]

\* a goroutine of processContainersConcurrently, before it has the semaphore.
\* stale is history: whether the registry's image differed from the local one
\* when the cycle listed the containers.  events are the notifications the
\* step has sent: the Updater holds a client and a config, no notifier and no
\* watcher, and no step of it adds one.  removeOpts are the options of the
\* ContainerRemove call, once issued; removedUp is history: whether the
\* container ran when that call reached the engine.
NewWorker(ctr) ==
    [ ctr |-> ctr, pc |-> "spawned", cur |-> <<>>, running |-> FALSE,
      config |-> <<>>, hostConfig |-> <<>>, networks |-> <<>>,
      name |-> <<>>, newID |-> 0, calls |-> <<>>, events |-> <<>>,
      removeOpts |-> <<>>, removedUp |-> FALSE,
      result |-> NewResult(ctr),
      stale |-> /\ HasImage(ctr.Image)
                /\ ImageOf(ctr.Image) # ImageIDOf(ctr.Image, upstream[ctr.Image]) ]

\* the goroutines that hold the semaphore
Holders == {id \in DOMAIN workers : workers[id].pc \notin {"spawned", "done"}}

\* the worker with an engine call and its outcome added to its log
Logged(w, call, ok) == [w EXCEPT !.calls = Append(@, [call |-> call, ok |-> ok])]

\* the worker after an engine call that succeeded
Called(w, call, pc) == [Logged(w, call, TRUE) EXCEPT !.pc = pc]

\* mutant: a failed call is issued again
FailedRetries(w, call, err) == Logged(w, call, FALSE)

\* mutant: after a failed call the goroutine neither sends nor releases
FailedHangs(w, call, err) ==
    [Logged(w, call, FALSE) EXCEPT !.pc = "failed", !.result.Error = err]

\* mutant: after a failed call the step goes on to the image cleanup
FailedThenCleans(w, call, err) ==
    [Logged(w, call, FALSE) EXCEPT !.pc = "removeImage", !.result.Error = err]

\* the worker after an engine call that failed: the error ends processContainer
Failed(w, call, err) ==
    [Logged(w, call, FALSE) EXCEPT !.pc = "send", !.result.Error = err]

\* mutant: no-pull is ignored
skipsCheckPinnedOnly(ctr) == isPinnedTag(ImageName(ctr.Image))

\* checkForUpdate, lines 227-235: no engine call under no-pull or a pinned tag
skipsCheck(ctr) == cfg.NoPull \/ isPinnedTag(ImageName(ctr.Image))

\* Updater.recordRun: lastRun is the start time of the cycle, which the model
\* counts in cycles
recordRun(st) == [st EXCEPT !.lastRun = @ + 1]

\* Updater.Run once the list call has answered containers: filter, return
\* when nothing is left, else start a goroutine for every container whose
\* updates are not disabled by label
RunOn(containers) ==
    LET filtered == filterContainers(containers)
        updatable == {ctr \in Range(filtered) : UpdateEnabled(ctr)}
    IN  /\ cycle' = [containers |-> containers, filtered |-> filtered]
        /\ phase' = IF Len(filtered) = 0 THEN "done" ELSE "running"
        /\ stats' = IF Len(filtered) = 0 THEN recordRun(stats) ELSE stats
        /\ workers' = [id \in {ctr.ID : ctr \in updatable} |->
                         NewWorker(CHOOSE ctr \in updatable : ctr.ID = id)]

\* Updater.Run up to the start of the goroutines; the cycle before it, if any,
\* has returned. A failing list call makes Run return the error; with nothing
\* left by the filter Run records the run and returns nil.
RunStart ==
    /\ phase # "running"
    /\ stats.lastRun < MaxCycles
    /\ results' = <<>>
    /\ \E ok \in BOOLEAN :
         /\ ok \/ MaxFaults > 0
         /\ IF ~ok
            THEN /\ phase' = "failed"
                 /\ faults' = 1
                 /\ workers' = <<>>
                 /\ UNCHANGED <<stats, cycle>>
            ELSE /\ RunOn(InListOrder(ListContainers(cfg.IncludeStopped)))
                 /\ faults' = 0
    /\ UNCHANGED <<cfg, engineVars, watcherVars, sup>>

\* a goroutine takes the semaphore and enters processContainer
Acquire(id) ==
    /\ workers[id].pc = "spawned"
    /\ Cardinality(Holders) < maxConcurrency
    /\ workers' = [workers EXCEPT ![id].pc =
                      IF skipsCheck(workers[id].ctr) THEN "send" ELSE "digest1"]
    /\ UNCHANGED <<cfg, engineVars, watcherVars, cycle, phase, results, stats, faults, sup>>

\* checkForUpdate: GetImageDigest before the pull
Digest1(id) ==
    LET w == workers[id]
    IN  /\ w.pc = "digest1"
        /\ \E ok \in BOOLEAN :
             /\ ok \/ faults < MaxFaults
             /\ faults' = IF ok THEN faults ELSE faults + 1
             /\ workers' = [workers EXCEPT ![id] =
                   IF ok /\ HasImage(w.ctr.Image)
                   THEN [Called(w, "digest", "pull") EXCEPT
                            !.cur = GetImageDigest(w.ctr.Image)]
                   ELSE Failed(w, "digest", "check")]
        /\ UNCHANGED <<cfg, engineVars, watcherVars, cycle, phase, results, stats, sup>>

\* checkForUpdate: PullImage
Pull(id) ==
    LET w == workers[id]
    IN  /\ w.pc = "pull"
        /\ \E ok \in BOOLEAN :
             /\ ok \/ faults < MaxFaults
             /\ faults' = IF ok THEN faults ELSE faults + 1
             /\ images' = IF ok THEN PullImage(w.ctr.Image) ELSE images
             /\ workers' = [workers EXCEPT ![id] =
                   IF ok THEN Called(w, "pull", "digest2")
                   ELSE Failed(w, "pull", "check")]
        /\ UNCHANGED <<cfg, ctrs, upstream, nextID, watcherVars, cycle, phase, results,
                       stats, sup>>

\* checkForUpdate: GetImageDigest after the pull and the comparison, then
\* processContainer's monitor-only return
Digest2(id) ==
    LET w == workers[id]
    IN  /\ w.pc = "digest2"
        /\ \E ok \in BOOLEAN :
             /\ ok \/ faults < MaxFaults
             /\ faults' = IF ok THEN faults ELSE faults + 1
             /\ workers' = [workers EXCEPT ![id] =
                   IF ok /\ HasImage(w.ctr.Image)
                   THEN Called(w, "digest",
                               IF w.cur # GetImageDigest(w.ctr.Image) /\ ~cfg.MonitorOnly
                               THEN "inspect" ELSE "send")
                   ELSE Failed(w, "digest", "check")]
        /\ UNCHANGED <<cfg, engineVars, watcherVars, cycle, phase, results, stats, sup>>

\* RecreateContainer: ContainerInspect of the container to replace
Inspect(id) ==
    LET w == workers[id]
    IN  /\ w.pc = "inspect"
        /\ \E ok \in BOOLEAN :
             /\ ok \/ faults < MaxFaults
             /\ faults' = IF ok THEN faults ELSE faults + 1
             /\ workers' = [workers EXCEPT ![id] =
                   IF ok /\ w.ctr.ID \in DOMAIN ctrs
                   THEN LET inspect == ContainerInspect(w.ctr.ID)
                        IN  [Called(w, "inspect",
                                    IF inspect.Running THEN "stop" ELSE "remove")
                               EXCEPT !.running = inspect.Running,
                                      !.config = inspect.Config,
                                      !.hostConfig = inspect.HostConfig,
                                      !.networks = inspect.NetworkSettings.Networks,
                                      !.name = TrimPrefix(inspect.Name, <<"/">>)]
                   ELSE Failed(w, "inspect", "update")]
        /\ UNCHANGED <<cfg, engineVars, watcherVars, cycle, phase, results, stats, sup>>

\* RecreateContainer: ContainerStop, issued when the inspection said running
Stop(id) ==
    LET w == workers[id]
    IN  /\ w.pc = "stop"
        /\ \E ok \in BOOLEAN :
             /\ ok \/ faults < MaxFaults
             /\ faults' = IF ok THEN faults ELSE faults + 1
             /\ IF ok /\ w.ctr.ID \in DOMAIN ctrs
                THEN /\ ctrs' = [ctrs EXCEPT ![w.ctr.ID].Running = FALSE]
                     /\ workers' = [workers EXCEPT ![id] = Called(w, "stop", "remove")]
                ELSE /\ ctrs' = ctrs
                     /\ workers' = [workers EXCEPT ![id] = Failed(w, "stop", "update")]
        /\ UNCHANGED <<cfg, images, upstream, nextID, watcherVars, cycle, phase, results,
                       stats, sup>>

\* mutant: the options RemoveContainer uses, volumes as configured
RemoveOptionsOfConfig == [RemoveVolumes |-> cfg.RemoveVolumes, Force |-> TRUE]

\* mutant: a removal that is not forced
RemoveOptionsUnforced == [RemoveVolumes |-> FALSE, Force |-> FALSE]

\* RecreateContainer: the options of its ContainerRemove call
RecreateRemoveOptions == [RemoveVolumes |-> FALSE, Force |-> TRUE]

\* RecreateContainer: ContainerRemove (forced, volumes kept); the engine
\* removes a running container only when the removal is forced
Remove(id) ==
    LET w  == workers[id]
        up == w.ctr.ID \in DOMAIN ctrs /\ ctrs[w.ctr.ID].Running
    IN  /\ w.pc = "remove"
        /\ \E ok \in BOOLEAN :
             /\ ok \/ faults < MaxFaults
             /\ faults' = IF ok THEN faults ELSE faults + 1
             /\ IF ok /\ w.ctr.ID \in DOMAIN ctrs /\ (RecreateRemoveOptions.Force \/ ~up)
                THEN /\ ctrs' = [i \in DOMAIN ctrs \ {w.ctr.ID} |-> ctrs[i]]
                     /\ workers' = [workers EXCEPT ![id] =
                           [Called(w, "remove", "create") EXCEPT
                               !.removeOpts = RecreateRemoveOptions,
                               !.removedUp = up]]
                ELSE /\ ctrs' = ctrs
                     /\ workers' = [workers EXCEPT ![id] =
                           [Failed(w, "remove", "update") EXCEPT
                               !.removeOpts = RecreateRemoveOptions,
                               !.removedUp = up]]
        /\ UNCHANGED <<cfg, images, upstream, nextID, watcherVars, cycle, phase, results,
                       stats, sup>>

\* RecreateContainer: ContainerCreate with the inspected config and name
Create(id) ==
    LET w == workers[id]
    IN  /\ w.pc = "create"
        /\ \E ok \in BOOLEAN :
             /\ ok \/ faults < MaxFaults
             /\ faults' = IF ok THEN faults ELSE faults + 1
             /\ IF ok /\ HasImage(w.config.Image)
                THEN /\ ctrs' = Put(ctrs, nextID, ContainerCreate(w.config, w.hostConfig, w.name))
                     /\ nextID' = nextID + 1
                     /\ workers' = [workers EXCEPT ![id] =
                           [Called(w, "create", "start") EXCEPT !.newID = nextID]]
                ELSE /\ UNCHANGED <<ctrs, nextID>>
                     /\ workers' = [workers EXCEPT ![id] = Failed(w, "create", "update")]
        /\ UNCHANGED <<cfg, images, upstream, watcherVars, cycle, phase, results, stats, sup>>

\* RecreateContainer: ContainerStart of the new container; then updateContainer
\* goes on to the cleanup when it is enabled and the old image id is known
Start(id) ==
    LET w == workers[id]
    IN  /\ w.pc = "start"
        /\ \E ok \in BOOLEAN :
             /\ ok \/ faults < MaxFaults
             /\ faults' = IF ok THEN faults ELSE faults + 1
             /\ IF ok /\ w.newID \in DOMAIN ctrs
                THEN /\ ctrs' = [ctrs EXCEPT ![w.newID].Running = TRUE]
                     /\ workers' = [workers EXCEPT ![id] =
                           Called(w, "start",
                                  IF cfg.Cleanup /\ w.ctr.ImageID # NoImageID
                                  THEN "removeImage" ELSE "getContainer")]
                ELSE /\ ctrs' = ctrs
                     /\ workers' = [workers EXCEPT ![id] = Failed(w, "start", "update")]
        /\ UNCHANGED <<cfg, images, upstream, nextID, watcherVars, cycle, phase, results,
                       stats, sup>>

\* mutant: a failed RemoveImage fails the update
CleanupFailureFails(id) ==
    LET w == workers[id]
    IN  /\ w.pc = "removeImage"
        /\ \E ok \in BOOLEAN :
             /\ ok \/ faults < MaxFaults
             /\ faults' = IF ok THEN faults ELSE faults + 1
             /\ images' = IF ok /\ CanRemoveImage(w.ctr.ImageID)
                          THEN RemoveImage(w.ctr.ImageID) ELSE images
             /\ workers' = [workers EXCEPT ![id] =
                   IF ok /\ CanRemoveImage(w.ctr.ImageID)
                   THEN [Logged(w, "removeImage", TRUE) EXCEPT !.pc = "getContainer"]
                   ELSE Failed(w, "removeImage", "update")]
        /\ UNCHANGED <<cfg, ctrs, upstream, nextID, watcherVars, cycle, phase, results,
                       stats, sup>>

\* updateContainer: RemoveImage of the old image; a failure is only logged
Cleanup(id) ==
    LET w == workers[id]
    IN  /\ w.pc = "removeImage"
        /\ \E ok \in BOOLEAN :
             /\ ok \/ faults < MaxFaults
             /\ faults' = IF ok THEN faults ELSE faults + 1
             /\ images' = IF ok /\ CanRemoveImage(w.ctr.ImageID)
                          THEN RemoveImage(w.ctr.ImageID) ELSE images
             /\ workers' = [workers EXCEPT ![id] =
                   [Logged(w, "removeImage", ok /\ CanRemoveImage(w.ctr.ImageID))
                      EXCEPT !.pc = "getContainer"]]
        /\ UNCHANGED <<cfg, ctrs, upstream, nextID, watcherVars, cycle, phase, results,
                       stats, sup>>

\* processContainer after updateContainer returned nil: Updated is set and
\* GetContainer is asked for the id the cycle listed
GetNewImage(id) ==
    LET w == workers[id]
    IN  /\ w.pc = "getContainer"
        /\ \E ok \in BOOLEAN :
             /\ ok \/ faults < MaxFaults
             /\ faults' = IF ok THEN faults ELSE faults + 1
             /\ workers' = [workers EXCEPT ![id] =
                   [Logged(w, "inspect", ok /\ w.ctr.ID \in DOMAIN ctrs) EXCEPT
                      !.pc = "send",
                      !.result.Updated = TRUE,
                      !.result.NewImageID =
                          IF ok /\ w.ctr.ID \in DOMAIN ctrs
                          THEN containerFromInspect(ContainerInspect(w.ctr.ID)).ImageID
                          ELSE NoImageID]]
        /\ UNCHANGED <<cfg, engineVars, watcherVars, cycle, phase, results, stats, sup>>

\* make(chan UpdateResult, len(containers)): the buffer of resultsChan
ChannelCapacity == Len(cycle.filtered)

\* the results that may sit in the buffer of resultsChan: the range loop
\* receives at its own pace, at worst none before the channel is closed
InChannel == results

\* mutant: resultsChan is closed without waiting for the goroutines
ChannelClosedAtOnce == TRUE

\* wg.Wait has returned and resultsChan is closed
ChannelClosed == \A id \in DOMAIN workers : workers[id].pc = "done"

\* the goroutine sends its result, which waits while the buffer is full, and
\* releases the semaphore
Send(id) ==
    /\ workers[id].pc = "send"
    /\ Len(InChannel) < ChannelCapacity
    /\ results' = Append(results, workers[id].result)
    /\ workers' = [workers EXCEPT ![id].pc = "done"]
    /\ UNCHANGED <<cfg, engineVars, watcherVars, cycle, phase, stats, faults, sup>>

\* the indices of the results that satisfy a test are counted by Run
CountOf(flags) == Cardinality({i \in DOMAIN flags : flags[i]})

\* mutant: a result without an error is counted as updated
SummaryCountsEveryResult(rs) ==
    [ updated |-> CountOf([i \in DOMAIN rs |-> rs[i].Error = ""]),
      failed  |-> CountOf([i \in DOMAIN rs |-> rs[i].Error # ""]) ]

\* Updater.Run, the loop over the results: a result with an error is counted
\* as failed, else one with Updated as updated
Summary(rs) ==
    [ updated |-> CountOf([i \in DOMAIN rs |-> rs[i].Error = "" /\ rs[i].Updated]),
      failed  |-> CountOf([i \in DOMAIN rs |-> rs[i].Error # ""]) ]

\* Updater.Run after processContainersConcurrently returned: the summary is
\* added to the counters, the run recorded and nil returned
RunFinish ==
    /\ phase = "running"
    /\ ChannelClosed
    /\ stats' = recordRun([stats EXCEPT
                    !.totalUpdated = @ + Summary(results).updated,
                    !.totalFailed = @ + Summary(results).failed])
    /\ phase' = "done"
    /\ UNCHANGED <<cfg, engineVars, watcherVars, cycle, workers, results, faults, sup>>

(***************************************************************************)
(* internal/health: the watcher.                                           *)
(***************************************************************************)
\* the container id the watcher's client reports: the entries of two ids
\* share no state, each goroutine works on the entry of its own id
WatchedIDs == {1}

\* the zero value of containerState
zeroState == [restartAttempts |-> 0, lastImageID |-> NoImageID, gaveUp |-> FALSE]

\* mutant: an unknown id starts from the entry of the id before it
getContainerStateInherits(containerID) ==
    IF containerID \in DOMAIN states THEN states[containerID]
    ELSE IF containerID - 1 \in DOMAIN states THEN states[containerID - 1]
    ELSE zeroState

getContainerState(containerID) ==
    IF containerID \in DOMAIN states THEN states[containerID] ELSE zeroState

\* NewWatcher: the notifier exists only with a notification URL
notifierSet == cfg.NotificationURL # ""

\* a Notify... call of the watcher, behind its nil check
Notify(kind) == IF notifierSet THEN <<kind>> ELSE <<>>

\* the outcome of one step: the entry, restart calls issued, events sent
Outcome(state, restarts, events) ==
    [state |-> state, restarts |-> restarts, events |-> events]

\* mutant: the limit compared with > instead of >=
handleUnhealthyOffByOne(ctr, state) ==
    IF state.restartAttempts > MaxRestartAttempts
    THEN Outcome([state EXCEPT !.gaveUp = TRUE], 0, Notify("container_gave_up"))
    ELSE IF cfg.HealthAction = "restart"
    THEN Outcome([state EXCEPT !.restartAttempts = @ + 1], 1,
                 Notify("container_unhealthy"))
    ELSE IF cfg.HealthAction = "notify"
    THEN Outcome([state EXCEPT !.restartAttempts = @ + 1], 0,
                 Notify("container_unhealthy"))
    ELSE Outcome(state, 0, <<>>)

\* mutant: the notify action restarts as well
handleUnhealthyNotifyRestarts(ctr, state) ==
    IF state.restartAttempts >= MaxRestartAttempts
    THEN Outcome([state EXCEPT !.gaveUp = TRUE], 0, Notify("container_gave_up"))
    ELSE IF cfg.HealthAction \in {"restart", "notify"}
    THEN Outcome([state EXCEPT !.restartAttempts = @ + 1], 1,
                 Notify("container_unhealthy"))
    ELSE Outcome(state, 0, <<>>)

handleUnhealthy(ctr, state) ==
    IF state.restartAttempts >= MaxRestartAttempts
    THEN Outcome([state EXCEPT !.gaveUp = TRUE], 0, Notify("container_gave_up"))
    ELSE IF cfg.HealthAction = "restart"
    THEN Outcome([state EXCEPT !.restartAttempts = @ + 1], 1,
                 Notify("container_unhealthy"))
    ELSE IF cfg.HealthAction = "notify"
    THEN Outcome([state EXCEPT !.restartAttempts = @ + 1], 0,
                 Notify("container_unhealthy"))
    ELSE Outcome(state, 0, <<>>)

\* mutant: a new image clears gaveUp but leaves the attempts
versionResetKeepsAttempts(ctr, state) ==
    [ (IF state.lastImageID # NoImageID /\ state.lastImageID # ctr.ImageID
       THEN [state EXCEPT !.gaveUp = FALSE]
       ELSE state)
      EXCEPT !.lastImageID = ctr.ImageID ]

\* processContainer, lines 148-154: a new image resets the retry state
versionReset(ctr, state) ==
    [ (IF state.lastImageID # NoImageID /\ state.lastImageID # ctr.ImageID
       THEN [state EXCEPT !.restartAttempts = 0, !.gaveUp = FALSE]
       ELSE state)
      EXCEPT !.lastImageID = ctr.ImageID ]

\* mutant: the healthy branch runs before the gaveUp check and clears it
processContainerHealthyFirst(ctr) ==
    LET state == versionReset(ctr, getContainerState(ctr.ID))
    IN  IF IsHealthy(ctr)
        THEN Outcome([state EXCEPT !.restartAttempts = 0, !.gaveUp = FALSE], 0, <<>>)
        ELSE IF state.gaveUp THEN Outcome(state, 0, <<>>)
        ELSE IF IsUnhealthy(ctr) THEN handleUnhealthy(ctr, state)
        ELSE Outcome(state, 0, <<>>)

\* mutant: the step does not skip an entry that has given up
processContainerNoSkip(ctr) ==
    LET state == versionReset(ctr, getContainerState(ctr.ID))
    IN  IF IsUnhealthy(ctr) THEN handleUnhealthy(ctr, state)
        ELSE IF IsHealthy(ctr)
        THEN Outcome(IF state.restartAttempts > 0
                     THEN [state EXCEPT !.restartAttempts = 0] ELSE state, 0, <<>>)
        ELSE Outcome(state, 0, <<>>)

\* mutant: a tick that finds the entry given up notifies again
processContainerRenotifies(ctr) ==
    LET state == versionReset(ctr, getContainerState(ctr.ID))
    IN  IF state.gaveUp THEN Outcome(state, 0, Notify("container_gave_up"))
        ELSE IF IsUnhealthy(ctr) THEN handleUnhealthy(ctr, state)
        ELSE IF IsHealthy(ctr)
        THEN Outcome(IF state.restartAttempts > 0
                     THEN [state EXCEPT !.restartAttempts = 0] ELSE state, 0, <<>>)
        ELSE Outcome(state, 0, <<>>)

processContainer(ctr) ==
    LET state == versionReset(ctr, getContainerState(ctr.ID))
    IN  IF state.gaveUp THEN Outcome(state, 0, <<>>)
        ELSE IF IsUnhealthy(ctr) THEN handleUnhealthy(ctr, state)
        ELSE IF IsHealthy(ctr)
        THEN Outcome(IF state.restartAttempts > 0
                     THEN [state EXCEPT !.restartAttempts = 0] ELSE state, 0, <<>>)
        ELSE Outcome(state, 0, <<>>)

\* checkHealthConcurrently, lines 114-128: the containers that get a goroutine
WatchFilter(ctr) ==
    /\ WatchEnabled(ctr)
    /\ ~(cfg.Scope # "" /\ GetScope(ctr) # cfg.Scope)
    /\ ~(cfg.LabelEnable /\ ~IsEnabled(ctr, cfg.LabelName, FALSE))

\* the image ids a client reports for a watched container: the image it runs
\* and the image after a new version was shipped
ObservedImageIDs == {ImageIDOf(1, 1), ImageIDOf(1, 2)}

\* one element of the list a docker.Client answers
Snapshot(id, imageID, health, labels) ==
    [ ID |-> id, Name |-> <<"c">>, Image |-> 1, ImageID |-> imageID,
      State |-> "running", Status |-> StatusText(TRUE, health),
      Labels |-> labels, HealthStatus |-> health ]

\* history: the count of consecutive unhealthy observations of an unchanged
\* image, from an entry that was Nominal with no attempts
NextStreak(ctr, before, entry) ==
    LET sameImage == before.lastImageID \in {NoImageID, ctr.ImageID}
        old       == IF ctr.ID \in DOMAIN streak THEN streak[ctr.ID] ELSE 0
    IN  IF ~IsUnhealthy(ctr) THEN 0
        ELSE IF old > 0 /\ sameImage
        THEN (IF old < MaxStreak THEN old + 1 ELSE MaxStreak)
        ELSE IF entry.restartAttempts = 0 /\ ~entry.gaveUp THEN 1 ELSE 0

\* processContainer(ctr) with the history it leaves: the entry, the record of
\* the step (image changed, attempts and gaveUp before, health seen, restart
\* calls, events, the labels seen, the failures before the step, whether the
\* restart call failed, the restart calls for the id that failed in a row up
\* to the step), the streak
FullStep(ctr) ==
    LET before == getContainerState(ctr.ID)
        out    == processContainer(ctr)
    IN  [ state |-> out.state,
          restarts |-> out.restarts,
          rec |-> [ changed |-> before.lastImageID \notin {NoImageID, ctr.ImageID},
                    was |-> before.restartAttempts,
                    gaveUp |-> before.gaveUp,
                    fails |-> 0,
                    image |-> ctr.ImageID,
                    health |-> ctr.HealthStatus,
                    restarts |-> out.restarts,
                    events |-> out.events,
                    labels |-> ctr.Labels,
                    seen |-> errs,
                    failed |-> FALSE ],
          streak |-> NextStreak(ctr, before, versionReset(ctr, before)) ]

\* mutant: a failed restart call gives the attempt back
restartFailedRollsBack(state) == [state EXCEPT !.restartAttempts = @ - 1]

\* handleUnhealthy, lines 201-203: the error of the restart call is logged,
\* the entry stays as it is
restartFailed(state) == state

\* the entry a goroutine leaves: as processContainer made it
EntryLeft(step, failed) ==
    IF step.restarts > 0 /\ failed THEN restartFailed(step.state) ELSE step.state

\* history: the step's record with the outcome of its restart call, and the
\* count of the restart calls for the id that failed in a row
Recorded(id, step, failed) ==
    LET old == IF id \in DOMAIN last THEN last[id].fails ELSE 0
    IN  [step.rec EXCEPT !.failed = failed,
                         !.fails = IF step.restarts = 0 THEN old
                                   ELSE IF failed THEN old + 1 ELSE 0]

\* the snapshot of a list that bears an id
SnapOf(list, id) == CHOOSE c \in list : c.ID = id

\* checkHealthConcurrently after the list call, as one step: every snapshot
\* that passes the filter gets a goroutine that runs processContainer under
\* its entry's lock; the goroutines work on disjoint entries and wg.Wait()
\* ends the tick.  failing: the ids whose restart call the engine fails.
TickAll(list, failing) ==
    LET run == {c.ID : c \in {x \in list : WatchFilter(x)}}
    IN  \E step \in {[id \in run |-> FullStep(SnapOf(list, id))]} :
        /\ pending = {}
        /\ \A id \in failing : id \in run /\ step[id].restarts > 0
        /\ errs.restart + Cardinality(failing) <= MaxWatchFaults
        /\ errs' = [errs EXCEPT !.restart = @ + Cardinality(failing)]
        /\ states' = [id \in DOMAIN states \cup run |->
                        IF id \in run THEN EntryLeft(step[id], id \in failing)
                        ELSE states[id]]
        /\ last' = [id \in DOMAIN last \cup run |->
                        IF id \in run
                        THEN Recorded(id, step[id], id \in failing)
                        ELSE last[id]]
        /\ streak' = [id \in DOMAIN streak \cup run |->
                        IF id \in run THEN step[id].streak ELSE streak[id]]
        /\ ctrs' = [id \in DOMAIN ctrs |->
                        IF id \in run \ failing /\ step[id].restarts > 0
                        THEN RestartContainer(id)[id] ELSE ctrs[id]]
        /\ UNCHANGED <<cfg, images, upstream, nextID, pending, tickRaw,
                       updaterVars, sup, mu>>

\* the labels of a watched container: none, or the documented per-container
\* health action
WatchLabels == {<<>>, [k \in {"dockwarden.watch.action"} |-> "notify"]}

\* mutant: a tick whose list call fails takes the containers for gone and
\* forgets their entries
checkHealthListErrorForgets ==
    /\ pending = {}
    /\ errs.list < MaxWatchFaults
    /\ errs' = [errs EXCEPT !.list = @ + 1]
    /\ states' = <<>>
    /\ UNCHANGED <<cfg, engineVars, pending, tickRaw, last, streak, updaterVars, sup, mu>>

\* checkHealthConcurrently, lines 103-110: the list call fails, the error is
\* logged and the tick returns
checkHealthListError ==
    /\ pending = {}
    /\ errs.list < MaxWatchFaults
    /\ errs' = [errs EXCEPT !.list = @ + 1]
    /\ UNCHANGED <<cfg, engineVars, states, pending, tickRaw, last, streak,
                   updaterVars, sup, mu>>

\* a tick of a watcher whose docker.Client reports health: the list call
\* fails, or it answers and any of the restart calls may fail; a snapshot the
\* filter drops is to the watcher a container the list does not hold
checkHealthClient ==
    \/ checkHealthListError
    \/ \E ids \in SUBSET WatchedIDs :
         \E obs \in [ids -> ObservedImageIDs \X HealthStatuses \X WatchLabels] :
           \E failing \in SUBSET ids :
             TickAll({Snapshot(id, obs[id][1], obs[id][2], obs[id][3]) : id \in ids},
                     failing)

\* mutant: the tick spawns its goroutines and returns without waiting
StartTickNoWait(list, raw) ==
    /\ pending' = pending \cup {c \in list : WatchFilter(c)}
    /\ tickRaw' = raw
    /\ UNCHANGED <<cfg, engineVars, states, last, streak, errs, updaterVars, sup, mu>>

\* checkHealthConcurrently after the list call, goroutine by goroutine; the
\* loop of Start calls it inline and it returns after wg.Wait(), so the tick
\* before has no goroutine left
StartTick(list, raw) ==
    /\ pending = {}
    /\ pending' = {c \in list : WatchFilter(c)}
    /\ tickRaw' = raw
    /\ UNCHANGED <<cfg, engineVars, states, last, streak, errs, updaterVars, sup, mu>>

\* a tick of the watcher on dockerClient; a failed list call ends the tick
checkHealthConcurrently ==
    \E ok \in BOOLEAN :
      IF ok
      THEN StartTick(ListContainers(FALSE),
                     [id \in {i \in DOMAIN ctrs : ctrs[i].Running} |-> ctrs[id].Health])
      ELSE checkHealthListError

\* one goroutine of the tick: processContainer under the entry's lock; the
\* restart call may fail, which is logged, and fails for an id the engine no
\* longer has; maxFaults bounds the failures of a behaviour
WatcherStepWithin(maxFaults) ==
    \E ctr \in pending : \E ok \in BOOLEAN :
      \E step \in {FullStep(ctr)} :
        LET failed == ~ok \/ (step.restarts > 0 /\ ctr.ID \notin DOMAIN ctrs)
        IN
          /\ ok \/ (step.restarts > 0 /\ errs.restart < maxFaults)
          /\ errs' = IF ok THEN errs ELSE [errs EXCEPT !.restart = @ + 1]
          /\ states' = Put(states, ctr.ID, EntryLeft(step, failed))
          /\ ctrs' = IF step.restarts > 0 /\ ok THEN RestartContainer(ctr.ID) ELSE ctrs
          /\ last' = Put(last, ctr.ID, Recorded(ctr.ID, step, failed))
          /\ streak' = Put(streak, ctr.ID, step.streak)
          /\ pending' = pending \ {ctr}
          /\ UNCHANGED <<cfg, images, upstream, nextID, tickRaw, updaterVars, sup, mu>>

WatcherStep == WatcherStepWithin(MaxWatchFaults)

resetState(state) ==
    [state EXCEPT !.restartAttempts = 0, !.gaveUp = FALSE, !.lastImageID = NoImageID]

\* Watcher.ResetContainer: under the map lock and the entry's lock
ResetContainer(containerID) ==
    /\ states' = IF containerID \in DOMAIN states
                 THEN [states EXCEPT ![containerID] = resetState(@)]
                 ELSE states
    /\ streak' = IF containerID \in DOMAIN streak
                 THEN [streak EXCEPT ![containerID] = 0]
                 ELSE streak
    /\ UNCHANGED <<cfg, engineVars, pending, tickRaw, last, errs, updaterVars, sup, mu>>

ResetAny == \E id \in WatchedIDs : ResetContainer(id)

(***************************************************************************)
(* internal/health: the watcher's locks.                                   *)
(***************************************************************************)
\* the holder of a lock nobody holds
NoOp == <<"none", 0>>

\* the ids of the entries
LockIDs == 1..MaxLocked

\* the ids ResetContainer is called for
ResetIDs == {1}

\* the operations on the locks: the goroutine of a tick for an id,
\* ResetContainer for an id, GetStats
LockOps ==
    {<<"worker", id>> : id \in LockIDs} \cup {<<"reset", id>> : id \in ResetIDs}
        \cup {<<"stats", 0>>}

\* NewWatcher: no lock held, no operation running.  writer is the operation
\* that has announced itself as writer of statesMu: it holds the lock once
\* the readers that were in have left, and who asks for a read lock meanwhile
\* waits for its Unlock; readers hold the read lock; entry[id] holds the mu
\* of the entry; todo and cur are the range loop of GetStats
MuInit ==
    [ writer |-> NoOp, readers |-> {}, entry |-> [id \in LockIDs |-> NoOp],
      pc |-> [op \in LockOps |-> "idle"], todo |-> {}, cur |-> 0 ]

\* statesMu.Lock: no other writer is in, the operation can announce itself
MapLockFree == mu.writer = NoOp

\* statesMu.Lock returns to the writer: the readers have left
MapLockHeld(op) == mu.writer = op /\ mu.readers = {}

\* statesMu.Unlock: the lock is free and the readers that waited are in; the
\* range loop of GetStats starts on the entries of the map
MapUnlocked(m, entries) ==
    IF m.pc[<<"stats", 0>>] = "rblocked"
    THEN [m EXCEPT !.writer = NoOp, !.readers = {<<"stats", 0>>},
                   !.pc[<<"stats", 0>>] = "range", !.todo = entries]
    ELSE [m EXCEPT !.writer = NoOp]

\* mutant: the entry's lock is given to whoever asks
EntryFreeAlways(id) == TRUE

\* state.mu.Lock returns
EntryFree(id) == mu.entry[id] = NoOp

\* the health a goroutine of the tick sees: the first container is
\* healthy or not, the others are healthy
LockHealth(id) == IF id = 1 THEN {"healthy", "unhealthy"} ELSE {"healthy"}

\* what no operation on the locks touches
LockFrame ==
    UNCHANGED <<cfg, engineVars, pending, tickRaw, last, streak, errs, updaterVars, sup>>

\* the operation moves on
At(op, pc) == [mu EXCEPT !.pc[op] = pc]

\* checkHealthConcurrently: the goroutines of the tick before have returned
\* (wg.Wait); one goroutine starts for each listed container
TickSpawns ==
    /\ \A id \in LockIDs : mu.pc[<<"worker", id>>] = "idle"
    /\ \E ids \in SUBSET LockIDs \ {{}} :
          mu' = [mu EXCEPT !.pc = [op \in LockOps |->
                    IF op[1] = "worker" /\ op[2] \in ids THEN "lockMap" ELSE mu.pc[op]]]
    /\ UNCHANGED states /\ LockFrame

\* getContainerState: statesMu.Lock
WorkerLockMap(id) ==
    LET op == <<"worker", id>>
    IN  /\ mu.pc[op] = "lockMap"
        /\ MapLockFree
        /\ mu' = [At(op, "inMap") EXCEPT !.writer = op]
        /\ UNCHANGED states /\ LockFrame

\* getContainerState: the entry is looked up, made when missing, and the
\* lock released on return
WorkerGetState(id) ==
    LET op == <<"worker", id>>
    IN  /\ mu.pc[op] = "inMap"
        /\ MapLockHeld(op)
        /\ states' = IF id \in DOMAIN states THEN states ELSE Put(states, id, zeroState)
        /\ mu' = MapUnlocked(At(op, "lockEntry"), DOMAIN states')
        /\ LockFrame

\* processContainer: state.mu.Lock
WorkerLockEntry(id) ==
    LET op == <<"worker", id>>
    IN  /\ mu.pc[op] = "lockEntry"
        /\ EntryFree(id)
        /\ mu' = [At(op, "process") EXCEPT !.entry[id] = op]
        /\ UNCHANGED states /\ LockFrame

\* processContainer: the step on the entry, with its engine and notifier
\* calls, and the unlock on return
WorkerProcess(id) ==
    LET op == <<"worker", id>>
    IN  /\ mu.pc[op] = "process"
        /\ \E health \in LockHealth(id) :
              states' = Put(states, id,
                  processContainer(Snapshot(id, ImageIDOf(1, 1), health, <<>>)).state)
        /\ mu' = [At(op, "idle") EXCEPT !.entry[id] = NoOp]
        /\ LockFrame

\* ResetContainer is called
ResetCalled(id) ==
    LET op == <<"reset", id>>
    IN  /\ mu.pc[op] = "idle"
        /\ mu' = At(op, "lockMap")
        /\ UNCHANGED states /\ LockFrame

\* ResetContainer: statesMu.Lock
ResetLockMap(id) ==
    LET op == <<"reset", id>>
    IN  /\ mu.pc[op] = "lockMap"
        /\ MapLockFree
        /\ mu' = [At(op, "inMap") EXCEPT !.writer = op]
        /\ UNCHANGED states /\ LockFrame

\* ResetContainer: the lookup of the entry
ResetLookup(id) ==
    LET op == <<"reset", id>>
    IN  /\ mu.pc[op] = "inMap"
        /\ MapLockHeld(op)
        /\ mu' = At(op, IF id \in DOMAIN states THEN "lockEntry" ELSE "unlockMap")
        /\ UNCHANGED states /\ LockFrame

\* ResetContainer: state.mu.Lock, with statesMu held
ResetLockEntry(id) ==
    LET op == <<"reset", id>>
    IN  /\ mu.pc[op] = "lockEntry"
        /\ EntryFree(id)
        /\ mu' = [At(op, "write") EXCEPT !.entry[id] = op]
        /\ UNCHANGED states /\ LockFrame

\* ResetContainer: the three fields are cleared and state.mu released
ResetWrite(id) ==
    LET op == <<"reset", id>>
    IN  /\ mu.pc[op] = "write"
        /\ states' = [states EXCEPT ![id] = resetState(@)]
        /\ mu' = [At(op, "unlockMap") EXCEPT !.entry[id] = NoOp]
        /\ LockFrame

\* ResetContainer returns: the deferred statesMu.Unlock
ResetReturns(id) ==
    LET op == <<"reset", id>>
    IN  /\ mu.pc[op] = "unlockMap"
        /\ mu' = MapUnlocked(At(op, "idle"), DOMAIN states)
        /\ UNCHANGED states /\ LockFrame

\* GetStats is called
StatsCalled ==
    /\ mu.pc[<<"stats", 0>>] = "idle"
    /\ mu' = At(<<"stats", 0>>, "rlock")
    /\ UNCHANGED states /\ LockFrame

\* GetStats: statesMu.RLock returns at once when no writer is in, and the
\* loop will range over the entries; else the reader waits for the writer's
\* Unlock
StatsRLock ==
    /\ mu.pc[<<"stats", 0>>] = "rlock"
    /\ mu' = IF mu.writer = NoOp
             THEN [At(<<"stats", 0>>, "range") EXCEPT
                      !.readers = @ \cup {<<"stats", 0>>}, !.todo = DOMAIN states]
             ELSE At(<<"stats", 0>>, "rblocked")
    /\ UNCHANGED states /\ LockFrame

\* GetStats: the range loop yields an entry, in any order
StatsNext ==
    /\ mu.pc[<<"stats", 0>>] = "range"
    /\ \E id \in mu.todo : mu' = [At(<<"stats", 0>>, "lockEntry") EXCEPT !.cur = id]
    /\ UNCHANGED states /\ LockFrame

\* GetStats: state.mu.Lock, with statesMu read-held
StatsLockEntry ==
    /\ mu.pc[<<"stats", 0>>] = "lockEntry"
    /\ EntryFree(mu.cur)
    /\ mu' = [At(<<"stats", 0>>, "read") EXCEPT !.entry[mu.cur] = <<"stats", 0>>]
    /\ UNCHANGED states /\ LockFrame

\* GetStats: gaveUp is read and state.mu released
StatsRead ==
    /\ mu.pc[<<"stats", 0>>] = "read"
    /\ mu' = [At(<<"stats", 0>>, "range") EXCEPT
                 !.entry[mu.cur] = NoOp, !.todo = @ \ {mu.cur}, !.cur = 0]
    /\ UNCHANGED states /\ LockFrame

\* GetStats returns: the deferred statesMu.RUnlock
StatsReturns ==
    /\ mu.pc[<<"stats", 0>>] = "range"
    /\ mu.todo = {}
    /\ mu' = [At(<<"stats", 0>>, "idle") EXCEPT !.readers = @ \ {<<"stats", 0>>}]
    /\ UNCHANGED states /\ LockFrame

(***************************************************************************)
(* Configurations and initial states.                                      *)
(***************************************************************************)
\* the defaults of config.RegisterFlags
DefaultConfig ==
    [ Mode |-> "full", RunOnce |-> FALSE, Schedule |-> "",
      Cleanup |-> TRUE, NoRestart |-> FALSE, NoPull |-> FALSE,
      MonitorOnly |-> FALSE, RollingRestart |-> FALSE,
      LabelEnable |-> FALSE, LabelName |-> "dockwarden.enable", Scope |-> "",
      IncludeStopped |-> FALSE, RemoveVolumes |-> FALSE, DisableContainers |-> {},
      HealthWatch |-> TRUE, HealthAction |-> "restart",
      NotificationURL |-> "", APIEnabled |-> FALSE ]

\* the health watcher's configurations: action, notifier, filter
WatcherConfigs ==
    { [DefaultConfig EXCEPT !.HealthAction = a, !.NotificationURL = u,
                            !.Scope = f[1], !.LabelEnable = f[2]] :
        a \in {"restart", "notify", "none"}, u \in {"", "hook"},
        f \in {<<"", FALSE>>} }

\* the state after construction, before any fleet or configuration is chosen
InitCommon ==
    /\ states = <<>>
    /\ pending = {}
    /\ tickRaw = <<>>
    /\ last = <<>>
    /\ streak = <<>>
    /\ errs = [list |-> 0, restart |-> 0]
    /\ mu = MuInit
    /\ phase = "idle"
    /\ workers = <<>>
    /\ results = <<>>
    /\ stats = [totalUpdated |-> 0, totalFailed |-> 0, lastRun |-> 0]
    /\ faults = 0
    /\ cycle = [containers |-> <<>>, filtered |-> <<>>]
    /\ sup = [ main |-> "start", runs |-> [src \in RunSources |-> <<>>],
               loop |-> "none", watch |-> "idle", summed |-> 0,
               overlapped |-> FALSE,
               seen |-> [updated |-> 0, failed |-> 0, results |-> 0] ]

\* the watcher alone, on any docker.Client
InitWatcher ==
    /\ InitCommon
    /\ cfg \in WatcherConfigs
    /\ ctrs = <<>>
    /\ images = <<>>
    /\ upstream = <<>>
    /\ nextID = 1

NextWatcher == checkHealthClient \/ ResetAny

SpecWatcher == InitWatcher /\ [][NextWatcher]_vars

(***************************************************************************)
(* The watcher on any docker.Client, with its container recreated.         *)
(***************************************************************************)
\* the id of the watched container: the latest the engine has given out
CurrentID == nextID - 1

\* Client.RecreateContainer has succeeded for the watched container: the old
\* container is gone and the new one has an id the engine never used before.
\* The caller, Updater.updateContainer, does not touch the watcher.
ClientRecreate ==
    /\ pending = {}
    /\ nextID <= MaxRecreates + 1
    /\ nextID' = nextID + 1
    /\ UNCHANGED <<cfg, ctrs, images, upstream, watcherVars, updaterVars, sup>>

\* a tick of the watcher: the client lists the container under its current
\* id, or lists nothing
checkHealthRecreated ==
    \E ids \in SUBSET {CurrentID} :
      \E obs \in [ids -> ObservedImageIDs \X HealthStatuses] :
        TickAll({Snapshot(id, obs[id][1], obs[id][2], <<>>) : id \in ids}, {})

\* Watcher.ResetContainer for any id the container has had
ResetRecreated == \E id \in 1..CurrentID : ResetContainer(id)

InitRecreate ==
    /\ InitCommon
    /\ cfg \in WatcherConfigs
    /\ ctrs = <<>>
    /\ images = <<>>
    /\ upstream = <<>>
    /\ nextID = 2

NextRecreate == checkHealthRecreated \/ ResetRecreated \/ ClientRecreate

SpecRecreate == InitRecreate /\ [][NextRecreate]_vars

(***************************************************************************)
(* The watcher on dockerClient, with the engine's containers under it.     *)
(***************************************************************************)
\* a container of the engine, on the default bridge network
EngineContainer(name, image, version, running, health, labels) ==
    [ Name |-> name, Image |-> image, ImageID |-> ImageIDOf(image, version),
      Running |-> running, Health |-> health, Labels |-> labels,
      NetworkMode |-> "bridge",
      Networks |-> [n \in {"bridge"} |-> [Aliases |-> {}]] ]

\* the container attached to the given networks instead, under one alias on
\* each; mode names the network the container was created on
OnNetworks(c, mode, nets, alias) ==
    [c EXCEPT !.NetworkMode = mode,
              !.Networks = [n \in nets |-> [Aliases |-> {alias}]]]

\* the fleets the watcher runs on: one container with a healthcheck and no
\* labels, one without a healthcheck under each label set
HealthFleets ==
    { <<EngineContainer(<<"/", "a">>, 1, 1, TRUE, "healthy", <<>>),
        EngineContainer(<<"/", "b">>, 2, 1, TRUE, "", labels)>> :
        labels \in LabelSets }

\* the watcher's configurations on the engine: action and filter
HealthConfigs ==
    { [DefaultConfig EXCEPT !.HealthAction = a, !.Scope = f[1], !.LabelEnable = f[2]] :
        a \in {"restart", "notify"},
        f \in {<<"", FALSE>>, <<"prod", FALSE>>, <<"", TRUE>>} }

\* the engine runs a container's healthcheck and records the outcome
EngineHealth ==
    \E id \in DOMAIN ctrs : \E h \in {"healthy", "unhealthy", "starting"} :
        /\ ctrs[id].Running
        /\ ctrs[id].Health \notin {"", h}
        /\ ctrs' = [ctrs EXCEPT ![id].Health = h]
        /\ UNCHANGED <<cfg, images, upstream, nextID, watcherVars, updaterVars, sup>>

\* a container's process exits
EngineExit ==
    \E id \in DOMAIN ctrs :
        /\ ctrs[id].Running
        /\ ctrs' = [ctrs EXCEPT ![id].Running = FALSE]
        /\ UNCHANGED <<cfg, images, upstream, nextID, watcherVars, updaterVars, sup>>

InitHealth ==
    /\ InitCommon
    /\ cfg \in HealthConfigs
    /\ ctrs \in HealthFleets
    /\ images = <<>>
    /\ upstream = <<>>
    /\ nextID = 3

NextHealth ==
    \/ EngineHealth
    \/ EngineExit
    \/ checkHealthConcurrently
    \/ WatcherStep
    \/ ResetAny

SpecHealth == InitHealth /\ [][NextHealth]_vars

(***************************************************************************)
(* One update cycle on the engine.                                         *)
(***************************************************************************)
\* the references of the model that are not pinned: "app:latest", "web",
\* "r:5000/api"
FloatingRefs == <<1, 2, 4>>

\* the pinned reference of the model: "db:15.3"
PinnedRef == CHOOSE ref \in ImageRefs : isPinnedTag(ImageTable[ref])

\* the i-th container of a fleet: running, no labels, started from version 1
Member(i, ref) ==
    EngineContainer(<<"/", LowerLetters[i]>>, ref, 1, TRUE, "", <<>>)

\* n containers that share one floating reference
SharedFleet(n) == [i \in 1..n |-> Member(i, FloatingRefs[1])]

\* n containers on floating references, neighbours on different ones
DistinctFleet(n) ==
    [i \in 1..n |-> Member(i, FloatingRefs[((i - 1) % Len(FloatingRefs)) + 1])]

\* n containers on the pinned reference
PinnedFleet(n) == [i \in 1..n |-> Member(i, PinnedRef)]

\* a floating container with a healthcheck on two networks of its own, a
\* pinned one, one with updates disabled by label, a stopped one
MixedFleet ==
    << OnNetworks(EngineContainer(<<"/", "a">>, 1, 1, TRUE, "healthy", <<>>),
                  "front", {"front", "back"}, "app"),
       Member(2, PinnedRef),
       EngineContainer(<<"/", "c">>, 2, 1, TRUE, "",
                       [k \in {"dockwarden.update.enable"} |-> "false"]),
       EngineContainer(<<"/", "d">>, 4, 1, FALSE, "", <<>>) >>

\* one container, with updates disabled by label
DisabledFleet ==
    << EngineContainer(<<"/", "a">>, 1, 1, TRUE, "",
                       [k \in {"dockwarden.update.enable"} |-> "false"]) >>

\* the fleets of an update cycle; rolling restart runs the workers one after
\* the other, which lets the model take one floating container more
Fleets(rolling) ==
    LET most == IF rolling THEN MaxRollingFloating ELSE MaxFloating
    IN  {SharedFleet(n) : n \in 1..most} \cup {DistinctFleet(n) : n \in 2..most}
           \cup {MixedFleet, PinnedFleet(NumContainers), DisabledFleet}

\* the configurations of an update cycle
UpdaterConfigs ==
    { DefaultConfig,
      [DefaultConfig EXCEPT !.RollingRestart = TRUE],
      [DefaultConfig EXCEPT !.NoPull = TRUE],
      [DefaultConfig EXCEPT !.MonitorOnly = TRUE],
      [DefaultConfig EXCEPT !.Cleanup = FALSE, !.IncludeStopped = TRUE,
                            !.RemoveVolumes = TRUE],
      [DefaultConfig EXCEPT !.NoRestart = TRUE],
      [DefaultConfig EXCEPT !.Mode = "watch"] }

\* the floating references the containers of a fleet use
FleetRefs(fleet) ==
    {fleet[i].Image : i \in {j \in DOMAIN fleet : ~isPinnedTag(ImageTable[fleet[j].Image])}}

\* every reference is stored locally at version 1; the registry has published
\* any version of the references the fleet floats on
InitUpdate ==
    /\ InitCommon
    /\ cfg \in UpdaterConfigs
    /\ ctrs \in Fleets(cfg.RollingRestart)
    /\ images = [id \in {ImageIDOf(ref, 1) : ref \in ImageRefs} |-> PulledImage(id[2], 1)]
    /\ upstream \in {u \in [ImageRefs -> 1..MaxVersion] :
                        \A ref \in ImageRefs \ FleetRefs(ctrs) : u[ref] = 1}
    /\ nextID = Len(ctrs) + 1

NextUpdate ==
    \/ RunStart
    \/ \E id \in DOMAIN workers : Acquire(id)
    \/ \E id \in DOMAIN workers : Digest1(id)
    \/ \E id \in DOMAIN workers : Pull(id)
    \/ \E id \in DOMAIN workers : Digest2(id)
    \/ \E id \in DOMAIN workers : Inspect(id)
    \/ \E id \in DOMAIN workers : Stop(id)
    \/ \E id \in DOMAIN workers : Remove(id)
    \/ \E id \in DOMAIN workers : Create(id)
    \/ \E id \in DOMAIN workers : Start(id)
    \/ \E id \in DOMAIN workers : Cleanup(id)
    \/ \E id \in DOMAIN workers : GetNewImage(id)
    \/ \E id \in DOMAIN workers : Send(id)
    \/ RunFinish

SpecUpdate == InitUpdate /\ [][NextUpdate]_vars

\* the cycles whose termination is checked: with and without rolling
\* restart, on two containers that share a reference, on the mixed fleet and
\* on a fleet with no container to update; the registry has a newer version of
\* every reference the fleet floats on
InitUpdateFair ==
    /\ InitCommon
    /\ cfg \in {DefaultConfig, [DefaultConfig EXCEPT !.RollingRestart = TRUE]}
    /\ ctrs \in {SharedFleet(2), MixedFleet, DisabledFleet}
    /\ images = [id \in {ImageIDOf(ref, 1) : ref \in ImageRefs} |-> PulledImage(id[2], 1)]
    /\ upstream = [ref \in ImageRefs |-> IF ref \in FleetRefs(ctrs) THEN 2 ELSE 1]
    /\ nextID = Len(ctrs) + 1

\* the step Acquire takes, whichever way processContainer goes on
Acquired(id) ==
    /\ workers[id].pc = "spawned"
    /\ Cardinality(Holders) < maxConcurrency
    /\ \E pc \in {"send", "digest1"} : workers' = [workers EXCEPT ![id].pc = pc]
    /\ UNCHANGED <<cfg, engineVars, watcherVars, cycle, phase, results, stats, faults, sup>>

\* a step of a cycle that is running: of one of its goroutines, or the return
\* of Run
CycleStep ==
    \/ \E id \in DOMAIN workers : Acquired(id)
    \/ \E id \in DOMAIN workers : Digest1(id)
    \/ \E id \in DOMAIN workers : Pull(id)
    \/ \E id \in DOMAIN workers : Digest2(id)
    \/ \E id \in DOMAIN workers : Inspect(id)
    \/ \E id \in DOMAIN workers : Stop(id)
    \/ \E id \in DOMAIN workers : Remove(id)
    \/ \E id \in DOMAIN workers : Create(id)
    \/ \E id \in DOMAIN workers : Start(id)
    \/ \E id \in DOMAIN workers : Cleanup(id)
    \/ \E id \in DOMAIN workers : GetNewImage(id)
    \/ \E id \in DOMAIN workers : Send(id)
    \/ RunFinish

\* while a goroutine of the cycle can take a step the scheduler runs one, and
\* every engine call returns; each step brings its goroutine nearer to its
\* end, so no goroutine is passed over for ever
SpecUpdateFair == InitUpdateFair /\ [][NextUpdate]_vars /\ WF_vars(CycleStep)


(***************************************************************************)
(* An update cycle and the health watcher on one engine.                   *)
(***************************************************************************)
\* a tick of the watcher on a docker.Client that lists the engine's running
\* containers with a health status
checkHealthReported ==
    \E h \in [{i \in DOMAIN ctrs : ctrs[i].Running} -> {"healthy", "unhealthy"}] :
        StartTick({[containerFromAPI(APIContainer(id)) EXCEPT !.HealthStatus = h[id]] :
                      id \in DOMAIN h}, h)

\* one floating container whose reference has a newer version upstream
InitInterleave ==
    /\ InitCommon
    /\ cfg = DefaultConfig
    /\ ctrs = SharedFleet(1)
    /\ images = [id \in {ImageIDOf(ref, 1) : ref \in ImageRefs} |-> PulledImage(id[2], 1)]
    /\ upstream = [ref \in ImageRefs |-> IF ref \in FleetRefs(ctrs) THEN 2 ELSE 1]
    /\ nextID = 2

NextInterleave == NextUpdate \/ checkHealthReported \/ WatcherStep

SpecInterleave == InitInterleave /\ [][NextInterleave]_vars

(***************************************************************************)
(* The ticks of the health watcher on an engine with two containers.       *)
(***************************************************************************)
InitTicks ==
    /\ InitCommon
    /\ cfg = DefaultConfig
    /\ ctrs = SharedFleet(2)
    /\ images = [id \in {ImageIDOf(ref, 1) : ref \in ImageRefs} |-> PulledImage(id[2], 1)]
    /\ upstream = [ref \in ImageRefs |-> 1]
    /\ nextID = 3

NextTicks == checkHealthReported \/ WatcherStepWithin(MaxRestartFaults)

SpecTicks == InitTicks /\ [][NextTicks]_vars

(***************************************************************************)
(* The operations on the watcher's locks.                                  *)
(***************************************************************************)
InitLocks ==
    /\ InitCommon
    /\ cfg = DefaultConfig
    /\ ctrs = <<>>
    /\ images = <<>>
    /\ upstream = <<>>
    /\ nextID = 1

NextLocks ==
    \/ TickSpawns
    \/ \E id \in LockIDs : WorkerLockMap(id)
    \/ \E id \in LockIDs : WorkerGetState(id)
    \/ \E id \in LockIDs : WorkerLockEntry(id)
    \/ \E id \in LockIDs : WorkerProcess(id)
    \/ \E id \in ResetIDs : ResetCalled(id)
    \/ \E id \in ResetIDs : ResetLockMap(id)
    \/ \E id \in ResetIDs : ResetLookup(id)
    \/ \E id \in ResetIDs : ResetLockEntry(id)
    \/ \E id \in ResetIDs : ResetWrite(id)
    \/ \E id \in ResetIDs : ResetReturns(id)
    \/ StatsCalled
    \/ StatsRLock
    \/ StatsNext
    \/ StatsLockEntry
    \/ StatsRead
    \/ StatsReturns

SpecLocks == InitLocks /\ [][NextLocks]_vars

\* the scheduler runs every goroutine that can take a step, engine and
\* notifier calls return, and a lock that is released again and again is
\* handed to a goroutine that waits for it (sync.Mutex and sync.RWMutex do
\* not starve a waiter)
FairLocks ==
    /\ \A id \in LockIDs :
          /\ SF_vars(WorkerLockMap(id)) /\ WF_vars(WorkerGetState(id))
          /\ SF_vars(WorkerLockEntry(id)) /\ WF_vars(WorkerProcess(id))
    /\ \A id \in ResetIDs :
          /\ SF_vars(ResetLockMap(id)) /\ WF_vars(ResetLookup(id))
          /\ SF_vars(ResetLockEntry(id))
          /\ WF_vars(ResetWrite(id)) /\ WF_vars(ResetReturns(id))
    /\ WF_vars(StatsRLock) /\ WF_vars(StatsNext) /\ SF_vars(StatsLockEntry)
    /\ WF_vars(StatsRead) /\ WF_vars(StatsReturns)

SpecLocksFair == SpecLocks /\ FairLocks

(***************************************************************************)
(* The updater's filter on any list answer.                                *)
(***************************************************************************)
\* the labels of the containers the filter is given
FilterLabels ==
    { <<>>,
      [k \in {"dockwarden.enable", "dockwarden.scope"} |->
          IF k = "dockwarden.enable" THEN "true" ELSE "prod"],
      [k \in {"dockwarden.enable", "dockwarden.scope"} |->
          IF k = "dockwarden.enable" THEN "false" ELSE "prod"],
      [k \in {"dockwarden.enable", "dockwarden.scope", "dockwarden.update.enable"} |->
          IF k = "dockwarden.enable" THEN "true"
          ELSE IF k = "dockwarden.scope" THEN "dev" ELSE "false"],
      [k \in {"dockwarden.update.enable"} |-> "false"],
      [k \in {"dockwarden.enable", "dockwarden.update.enable"} |->
          IF k = "dockwarden.enable" THEN "true" ELSE ""],
      [k \in {"dockwarden.enable", "dockwarden.update.enable"} |->
          IF k = "dockwarden.enable" THEN "" ELSE "true"] }

\* the names of the containers the filter is given, by position in the list
FilterNames == << <<"/", "a">>, <<"/", "a", "b">>, <<"/", "c">> >>

\* the list answers the filter is given: up to MaxListed containers, each
\* running or exited, under any of the label sets
FilterInputs ==
    UNION { [1..n -> {"running", "exited"} \X FilterLabels] : n \in 0..MaxListed }

\* the list answer drawn from a choice of state and labels per position
FilterInput(choice) ==
    [i \in DOMAIN choice |->
        containerFromAPI([ ID |-> i, Names |-> <<FilterNames[i]>>, Image |-> 1,
                           ImageID |-> ImageIDOf(1, 1), State |-> choice[i][1],
                           Status |-> StatusText(choice[i][1] = "running", ""),
                           Labels |-> choice[i][2] ])]

\* the filter's policies: disable list, label-enable, scope, include-stopped
FilterConfigs ==
    { [DefaultConfig EXCEPT !.DisableContainers = d, !.LabelEnable = f[1],
                            !.Scope = f[2], !.IncludeStopped = s] :
        d \in {{}, {<<"a">>}},
        f \in {<<FALSE, "">>, <<TRUE, "">>, <<FALSE, "prod">>},
        s \in BOOLEAN }

\* Run from the answer of the list call on
RunFiltered ==
    /\ phase = "idle"
    /\ \E choice \in FilterInputs : RunOn(FilterInput(choice))
    /\ UNCHANGED <<cfg, engineVars, watcherVars, results, faults, sup>>

InitFilter ==
    /\ InitCommon
    /\ cfg \in FilterConfigs
    /\ ctrs = <<>>
    /\ images = <<>>
    /\ upstream = <<>>
    /\ nextID = 1

NextFilter == RunFiltered

SpecFilter == InitFilter /\ [][NextFilter]_vars

(***************************************************************************)
(* One update cycle for one container on any built reference.              *)
(***************************************************************************)
\* the container runs version 1 of its reference, which is stored locally; the
\* registry has published any version of a reference without a digest, and
\* the one version a digest names
InitPinned ==
    /\ InitCommon
    /\ cfg = DefaultConfig
    /\ \E ref \in BuiltRefs :
         /\ ctrs = << Member(1, ref) >>
         /\ images = [id \in {ImageIDOf(ref, 1)} |-> PulledImage(ref, 1)]
         /\ upstream \in [{ref} -> IF DigestOf(ref) = <<>> THEN 1..MaxVersion ELSE {1}]
    /\ nextID = 2

SpecPinned == InitPinned /\ [][NextUpdate]_vars

(***************************************************************************)
(* cmd (run), internal/scheduler and the API's update triggers.            *)
(***************************************************************************)
\* an Updater.Run invocation that has entered and not reached its summary
NewRun == [stage |-> "work", results |-> <<>>]

\* Updater.Run is entered by a caller of the given kind
RunEnters(src) == [sup EXCEPT !.runs[src] = Append(@, NewRun)]

\* the Updater.Run invocations of a caller that are in flight
InFlight(src) == Len(sup.runs[src])

\* a sequence without its i-th element
Without(seq, i) == SubSeq(seq, 1, i - 1) \o SubSeq(seq, i + 1, Len(seq))

\* the process has ended: run() returned after run-once or after a signal
Ended == sup.main \in {"finished", "exited"}

\* the results processContainer can return: up to date, updated, failed
ResultKinds ==
    { [Updated |-> FALSE, Error |-> ""],
      [Updated |-> TRUE, Error |-> ""],
      [Updated |-> FALSE, Error |-> "update"] }

\* the result lists a cycle of the supervisor's model collects: none, one
\* result of any kind, or one container updated and another failed
ResultLists ==
    {<<>>} \cup {<<r>> : r \in ResultKinds}
        \cup {<<r1, r2>> : r1 \in {r \in ResultKinds : r.Updated},
                           r2 \in {r \in ResultKinds : r.Error # ""}}

\* the supervisor's configurations: run-once, cron or interval, API on or
\* off, health watcher on or off
SupervisorConfigs ==
    { [DefaultConfig EXCEPT !.RunOnce = o, !.Schedule = c, !.APIEnabled = a,
                            !.HealthWatch = h] :
        o \in BOOLEAN, c \in {"", "0 0 * * * *"}, a \in BOOLEAN, h \in BOOLEAN }

\* Updater.Run, lines 74-88: processContainersConcurrently has returned the
\* results, the summary is made and totalUpdated.Add is done.  history: the
\* summaries begun, and whether one began while another run was between its
\* two Add calls.
RunAddsUpdated ==
    \E src \in RunSources : \E i \in DOMAIN sup.runs[src] : \E rs \in ResultLists :
        /\ ~Ended
        /\ sup.runs[src][i].stage = "work"
        /\ sup.summed < MaxSummaries
        /\ stats' = [stats EXCEPT !.totalUpdated = @ + Summary(rs).updated]
        /\ sup' = [sup EXCEPT
               !.runs[src][i] = [stage |-> "added", results |-> rs],
               !.summed = @ + 1,
               !.overlapped = @ \/ \E s \in RunSources : \E j \in DOMAIN sup.runs[s] :
                                      sup.runs[s][j].stage = "added"]
        /\ UNCHANGED <<cfg, engineVars, watcherVars, cycle, phase, workers, results, faults>>

\* the counters after a run returns: one past totalUpdated.Add goes through
\* totalFailed.Add and recordRun; one before its summary returns the error of
\* the list call
StatsAfter(run) ==
    IF run.stage = "added"
    THEN recordRun([stats EXCEPT !.totalFailed = @ + Summary(run.results).failed])
    ELSE stats

\* history: the results of the cycles that have returned, counted as the
\* claims on the counters read them: updated with no error, with an error,
\* all
SeenAfter(run) ==
    LET rs == run.results
    IN  [ updated |-> sup.seen.updated +
              Cardinality({k \in DOMAIN rs : rs[k].Updated /\ rs[k].Error = ""}),
          failed |-> sup.seen.failed +
              Cardinality({k \in DOMAIN rs : rs[k].Error # ""}),
          results |-> sup.seen.results + Len(rs) ]

\* the supervisor after the i-th run of a caller has returned
Returned(src, i) ==
    [sup EXCEPT !.runs[src] = Without(@, i), !.seen = SeenAfter(sup.runs[src][i])]

\* run(): run-once mode calls upd.Run() inline
StartRunOnce ==
    /\ sup.main = "start"
    /\ cfg.RunOnce
    /\ sup' = [RunEnters("main") EXCEPT !.main = "runonce"]
    /\ UNCHANGED <<cfg, engineVars, watcherVars, updaterVars>>

\* run(): the run-once cycle returns, run() returns and the process ends with
\* whatever its goroutines were doing
FinishRunOnce ==
    /\ sup.main = "runonce"
    /\ stats' = StatsAfter(sup.runs["main"][1])
    /\ sup' = [Returned("main", 1) EXCEPT !.main = "finished"]
    /\ UNCHANGED <<cfg, engineVars, watcherVars, cycle, phase, workers, results, faults>>

\* Scheduler.Start with a schedule: startCron
startCron ==
    /\ sup.main = "start"
    /\ ~cfg.RunOnce
    /\ cfg.Schedule # ""
    /\ sup' = [sup EXCEPT !.main = "serving"]
    /\ UNCHANGED <<cfg, engineVars, watcherVars, updaterVars>>

\* Scheduler.Start without a schedule: startInterval calls fn() at once
startInterval ==
    /\ sup.main = "start"
    /\ ~cfg.RunOnce
    /\ cfg.Schedule = ""
    /\ sup' = [RunEnters("main") EXCEPT !.main = "first"]
    /\ UNCHANGED <<cfg, engineVars, watcherVars, updaterVars>>

\* startInterval: the first fn() returns, the ticker and its goroutine start
\* and run() goes on to wait for a signal
FirstRunReturns ==
    /\ sup.main = "first"
    /\ stats' = StatsAfter(sup.runs["main"][1])
    /\ sup' = [Returned("main", 1) EXCEPT !.main = "serving", !.loop = "select"]
    /\ UNCHANGED <<cfg, engineVars, watcherVars, cycle, phase, workers, results, faults>>

\* the interval goroutine, in its select, receives from ticker.C; the ticker
\* delivers nothing once Scheduler.Stop has stopped it
IntervalTick ==
    /\ sup.main = "serving"
    /\ sup.loop = "select"
    /\ sup' = [sup EXCEPT !.loop = "tick"]
    /\ UNCHANGED <<cfg, engineVars, watcherVars, updaterVars>>

\* mutant: the interval goroutine starts fn() in a goroutine of its own
IntervalRunDetached ==
    /\ ~Ended
    /\ sup.loop = "tick"
    /\ InFlight("ticker") < MaxInFlight
    /\ sup' = [RunEnters("ticker") EXCEPT !.loop = "select"]
    /\ UNCHANGED <<cfg, engineVars, watcherVars, updaterVars>>

\* the interval goroutine, having received a tick, calls fn(); nothing
\* between the receive and the call looks at stopChan
IntervalRun ==
    /\ ~Ended
    /\ sup.loop = "tick"
    /\ sup' = [RunEnters("ticker") EXCEPT !.loop = "fn"]
    /\ UNCHANGED <<cfg, engineVars, watcherVars, updaterVars>>

\* the interval goroutine, in its select, finds stopChan closed and returns
IntervalStops ==
    /\ sup.main = "stopped"
    /\ sup.loop = "select"
    /\ sup' = [sup EXCEPT !.loop = "returned"]
    /\ UNCHANGED <<cfg, engineVars, watcherVars, updaterVars>>

\* the cron library starts the job in a goroutine of its own at each fire,
\* until cron.Stop
CronFire ==
    /\ sup.main = "serving"
    /\ cfg.Schedule # ""
    /\ InFlight("cron") < MaxInFlight
    /\ sup' = RunEnters("cron")
    /\ UNCHANGED <<cfg, engineVars, watcherVars, updaterVars>>

\* Server.handleTriggerUpdate: go s.updater.Run()
handleTriggerUpdate ==
    /\ cfg.APIEnabled
    /\ ~Ended
    /\ InFlight("api") < MaxInFlight
    /\ sup' = RunEnters("api")
    /\ UNCHANGED <<cfg, engineVars, watcherVars, updaterVars>>

\* Server.handleUITriggerUpdate: go s.updater.Run()
handleUITriggerUpdate ==
    /\ cfg.APIEnabled
    /\ ~Ended
    /\ InFlight("ui") < MaxInFlight
    /\ sup' = RunEnters("ui")
    /\ UNCHANGED <<cfg, engineVars, watcherVars, updaterVars>>

\* an Updater.Run started by a goroutine returns; the interval goroutine then
\* is back in its select
RunReturns ==
    \E src \in RunSources \ {"main"} : \E i \in DOMAIN sup.runs[src] :
        /\ ~Ended
        /\ stats' = StatsAfter(sup.runs[src][i])
        /\ sup' = [Returned(src, i) EXCEPT
                      !.loop = IF src = "ticker" THEN "select" ELSE @]
        /\ UNCHANGED <<cfg, engineVars, watcherVars, cycle, phase, workers, results, faults>>

\* Watcher.Start: the watcher's goroutine receives a tick and runs
\* checkHealthConcurrently; it looks at stopChan only between ticks
HealthTickStarts ==
    /\ cfg.HealthWatch
    /\ ~Ended
    /\ sup.watch = "idle"
    /\ sup' = [sup EXCEPT !.watch = "tick"]
    /\ UNCHANGED <<cfg, engineVars, watcherVars, updaterVars>>

\* checkHealthConcurrently returns
HealthTickEnds ==
    /\ ~Ended
    /\ sup.watch = "tick"
    /\ sup' = [sup EXCEPT !.watch = "idle"]
    /\ UNCHANGED <<cfg, engineVars, watcherVars, updaterVars>>

\* run(): a signal arrives and Scheduler.Stop is called: it closes stopChan,
\* stops the cron scheduler and the ticker, and returns without waiting for
\* any goroutine
Shutdown ==
    /\ sup.main = "serving"
    /\ sup' = [sup EXCEPT !.main = "stopped"]
    /\ UNCHANGED <<cfg, engineVars, watcherVars, updaterVars>>

\* run() after Scheduler.Stop: Watcher.Stop closes the watcher's stopChan and
\* waits for its goroutine, which returns once no tick is running; then run()
\* returns and the process ends with whatever its other goroutines were doing
Exit ==
    /\ sup.main = "stopped"
    /\ sup.watch # "tick"
    /\ sup' = [sup EXCEPT !.main = "exited", !.watch = "stopped"]
    /\ UNCHANGED <<cfg, engineVars, watcherVars, updaterVars>>

InitSupervisor ==
    /\ InitCommon
    /\ cfg \in SupervisorConfigs
    /\ ctrs = <<>>
    /\ images = <<>>
    /\ upstream = <<>>
    /\ nextID = 1

NextSupervisor ==
    \/ StartRunOnce
    \/ FinishRunOnce
    \/ startCron
    \/ startInterval
    \/ FirstRunReturns
    \/ IntervalTick
    \/ IntervalRun
    \/ IntervalStops
    \/ CronFire
    \/ handleTriggerUpdate
    \/ handleUITriggerUpdate
    \/ RunAddsUpdated
    \/ RunReturns
    \/ HealthTickStarts
    \/ HealthTickEnds
    \/ Shutdown
    \/ Exit

SpecSupervisor == InitSupervisor /\ [][NextSupervisor]_vars

(***************************************************************************)
(* Claims on the health watcher's retry state machine (SpecWatcher).       *)
(***************************************************************************)
\* the entry of id left GaveUp in this step because a tick saw another image
ImageChangeSeen(id) ==
    states'[id].lastImageID \notin {NoImageID, states[id].lastImageID}

\* the entry of id was reset by ResetContainer in this step
WasReset(id) == states'[id] = zeroState /\ states[id] # zeroState

\* C2 as stated: once gaveUp holds for an id no restart call is issued for it
\* and gaveUp stays true until a tick observes an image id that differs from
\* lastImageID; nothing else, ResetContainer included, leaves GaveUp.
C2_OnlyImageChangeLeavesGaveUp ==
    [][\A id \in DOMAIN states :
         states[id].gaveUp =>
            \/ states'[id].gaveUp /\ last'[id].restarts = 0
            \/ ImageChangeSeen(id)]_vars

\* C2 amended: once gaveUp holds for an id no restart call is issued for it
\* and gaveUp stays true until a tick observes an image id that differs from
\* lastImageID or ResetContainer is called for the id; these are the only two
\* ways out of GaveUp.
C2_GaveUpLeftByImageChangeOrReset ==
    [][\A id \in DOMAIN states :
         states[id].gaveUp =>
            \/ states'[id].gaveUp /\ last'[id].restarts = 0
            \/ ImageChangeSeen(id)
            \/ WasReset(id)]_vars

\* C2 witness: an entry in GaveUp whose latest tick saw the container
\* unhealthy again and restarted nothing
C2_Witness ==
    \E id \in DOMAIN states :
        /\ states[id].gaveUp
        /\ streak[id] > MaxRestartAttempts + 1
        /\ last[id].restarts = 0

\* the retry discipline of C3 for the id's latest tick, k unhealthy
\* observations of one image in a row after a Nominal entry with no attempts
C3_Discipline(id) ==
    LET k == streak[id]
    IN  /\ k \in 1..MaxRestartAttempts =>
              /\ last[id].restarts = 1
              /\ states[id].restartAttempts = k
              /\ ~states[id].gaveUp
        /\ k = MaxRestartAttempts + 1 =>
              /\ last[id].restarts = 0
              /\ states[id].gaveUp
        /\ k > MaxRestartAttempts + 1 =>
              /\ last[id].restarts = 0
              /\ states[id].gaveUp

\* C3 as stated: under health action restart, ticks 1 to 5 of a container
\* seen unhealthy on every tick with one image each issue one restart call
\* with attempts 1..5, tick 6 issues none, sets gaveUp and emits
\* container_gave_up, and every later tick issues no restart.
C3_FiveRestartsThenGaveUpEvent ==
    \A id \in DOMAIN streak :
        cfg.HealthAction = "restart" =>
            /\ C3_Discipline(id)
            /\ streak[id] = MaxRestartAttempts + 1 =>
                  last[id].events = <<"container_gave_up">>

\* C3 amended: as stated, but tick 6 emits container_gave_up only when a
\* notification URL is configured (without one the watcher has no notifier
\* and emits nothing).
C3_FiveRestartsThenGaveUp ==
    \A id \in DOMAIN streak :
        cfg.HealthAction = "restart" =>
            /\ C3_Discipline(id)
            /\ streak[id] = MaxRestartAttempts + 1 =>
                  last[id].events =
                      IF cfg.NotificationURL # "" THEN <<"container_gave_up">> ELSE <<>>

\* C3 witness: the sixth unhealthy tick in a row has just given up
C3_Witness ==
    \E id \in DOMAIN streak :
        /\ cfg.HealthAction = "restart"
        /\ streak[id] = MaxRestartAttempts + 1
        /\ states[id].gaveUp
        /\ last[id].events = <<"container_gave_up">>

\* the latest tick of id saw an image other than the recorded one, and the
\* entry has not been reset by ResetContainer since
C5_AfterVersionReset(id) ==
    /\ last[id].changed
    /\ states[id].lastImageID # NoImageID

\* what C5 says of the entry after such a tick, but for the restart
C5_ResetDone(id) ==
    /\ ~states[id].gaveUp
    /\ states[id].lastImageID = last[id].image
    /\ last[id].health # "unhealthy" => states[id].restartAttempts = 0

\* C5 as stated: on a tick whose snapshot bears an image id other than the
\* entry's non-empty lastImageID, attempts is set to 0 and gaveUp cleared
\* before the transition, lastImageID becomes the new image id, and a
\* container still unhealthy on that tick is restarted with attempts 1.
C5_VersionResetRestarts ==
    \A id \in DOMAIN last :
        C5_AfterVersionReset(id) =>
            /\ C5_ResetDone(id)
            /\ last[id].health = "unhealthy" =>
                  states[id].restartAttempts = 1 /\ last[id].restarts = 1

\* C5 amended: as stated, the restart with attempts 1 being what happens
\* under health action restart (under notify attempts becomes 1 without a
\* restart call; under any other action nothing is counted or restarted).
C5_VersionReset ==
    \A id \in DOMAIN last :
        C5_AfterVersionReset(id) =>
            /\ C5_ResetDone(id)
            /\ last[id].health = "unhealthy" /\ cfg.HealthAction = "restart" =>
                  states[id].restartAttempts = 1 /\ last[id].restarts = 1
            /\ last[id].health = "unhealthy" /\ cfg.HealthAction # "restart" =>
                  /\ last[id].restarts = 0
                  /\ states[id].restartAttempts =
                        IF cfg.HealthAction = "notify" THEN 1 ELSE 0

\* C5 witness: a container that had been given up is seen unhealthy with a
\* new image and is restarted at attempts 1
C5_Witness ==
    \E id \in DOMAIN last :
        /\ C5_AfterVersionReset(id)
        /\ last[id].health = "unhealthy"
        /\ last[id].restarts = 1
        /\ states[id].restartAttempts = 1

\* C6 as stated: restartAttempts of an id never decreases between two
\* image-id changes observed for it, and is reset to 0 on an image-id change
\* (the transition of that same tick may then count one attempt).
C6_AttemptsMonotoneBetweenImages ==
    [][\A id \in DOMAIN states :
         \/ states'[id].restartAttempts >= states[id].restartAttempts
         \/ ImageChangeSeen(id) /\ states'[id].restartAttempts \in {0, 1}]_vars

\* C6 amended: restartAttempts of an id never decreases except to be reset:
\* to 0 on an image-id change (the transition of that same tick may then
\* count one attempt), to 0 when the container is observed healthy (or with
\* no health status), and to 0 by ResetContainer.
C6_AttemptsMonotoneUntilReset ==
    [][\A id \in DOMAIN states :
         \/ states'[id].restartAttempts >= states[id].restartAttempts
         \/ ImageChangeSeen(id) /\ states'[id].restartAttempts \in {0, 1}
         \/ /\ states'[id].restartAttempts = 0
            /\ last'[id].health \in {"", "healthy"}
            /\ states'[id].lastImageID = last'[id].image
         \/ WasReset(id)]_vars

\* C6 witness: attempts had counted up to the limit when a tick saw a new
\* image and reset them
C6_Witness ==
    \E id \in DOMAIN last :
        /\ last[id].changed
        /\ last[id].was = MaxRestartAttempts
        /\ states[id].restartAttempts = 0
        /\ states[id].lastImageID = last[id].image

(***************************************************************************)
(* Claims on the watcher over dockerClient (SpecHealth).                   *)
(***************************************************************************)
\* the goroutine of id has run in the tick whose list answer is tickRaw
ProcessedThisTick(id) ==
    /\ id \in DOMAIN tickRaw
    /\ id \in DOMAIN last
    /\ WatchFilter(containerFromAPI(APIContainer(id)))
    /\ \A c \in pending : c.ID # id

\* C4: on a health tick every running container the engine reports unhealthy
\* that passes the watch filter, is not in GaveUp and has attempts < 5 gets
\* one restart call during that tick when the health action is restart.
C4_EngineUnhealthyRestarted ==
    \A id \in DOMAIN ctrs :
        ( /\ cfg.HealthAction = "restart"
          /\ ProcessedThisTick(id)
          /\ tickRaw[id] = "unhealthy"
          /\ last[id].was < MaxRestartAttempts
          /\ ~states[id].gaveUp ) => last[id].restarts = 1

\* the next tick, were the client to report every watched container unhealthy
NextTickUnhealthy ==
    TickAll({Snapshot(id, ImageIDOf(1, 1), "unhealthy", <<>>) : id \in WatchedIDs}, {})

\* C22: the health watcher never terminates on engine errors: a tick whose
\* list call fails changes no entry and issues no restart, a tick whose
\* restart call fails still counts the attempt and ends like any other, and
\* after either the next tick can run and is processed.
C22_EngineErrorsLeaveLoopRunning ==
    [][ /\ errs'.list > errs.list =>
              /\ states' = states
              /\ last' = last
              /\ pending' = {}
        /\ errs'.restart > errs.restart =>
              /\ pending' = {}
              /\ \E id \in DOMAIN last' :
                    /\ last'[id].failed
                    /\ last'[id].restarts = 1
                    /\ states'[id].restartAttempts =
                          (IF last'[id].changed THEN 0 ELSE last'[id].was) + 1
        /\ errs' # errs => (ENABLED NextTickUnhealthy)' ]_vars

\* after a failed list call and a failed restart call a tick has observed the
\* container unhealthy and restarted it
C22_Witness ==
    \E id \in DOMAIN last :
        /\ last[id].seen.list > 0
        /\ last[id].seen.restart > 0
        /\ last[id].health = "unhealthy"
        /\ last[id].restarts = 1
        /\ ~last[id].failed
        /\ states[id].restartAttempts = last[id].was + 1

\* this step is a tick that has run processContainer for id: the list call
\* answered and the entry bears the image seen (ResetContainer clears it)
TickProcessed(id) ==
    /\ errs'.list = errs.list
    /\ id \in DOMAIN states'
    /\ states'[id].lastImageID # NoImageID

\* the entry of id the handlers of this step's tick started from: the entry
\* before the step, after the reset a new image causes
EntryHandled(id) ==
    LET before == IF id \in DOMAIN states THEN states[id] ELSE zeroState
    IN  IF last'[id].changed
        THEN [before EXCEPT !.restartAttempts = 0, !.gaveUp = FALSE,
                            !.lastImageID = last'[id].image]
        ELSE [before EXCEPT !.lastImageID = last'[id].image]

\* under health action notify no tick issues a restart call, and a tick that
\* observes id unhealthy with fewer than 5 attempts only increments the
\* attempts and emits the given events
NotifyDiscipline(id, events) ==
    (cfg.HealthAction = "notify" /\ TickProcessed(id)) =>
        /\ last'[id].restarts = 0
        /\ ( /\ last'[id].health = "unhealthy"
              /\ EntryHandled(id).restartAttempts < MaxRestartAttempts ) =>
                /\ states'[id] =
                      [EntryHandled(id) EXCEPT !.restartAttempts = @ + 1]
                /\ last'[id].events = events

\* C23 as stated: when the health action is notify the watcher never issues
\* a restart call, and an unhealthy observation with attempts < 5 only
\* increments attempts and emits container_unhealthy.
C23_NotifyNeverRestartsEmits ==
    [][\A id \in WatchedIDs :
          NotifyDiscipline(id, <<"container_unhealthy">>)]_vars

\* C23 amended: as stated, but container_unhealthy is emitted only when a
\* notification URL is configured; without one nothing is emitted.
C23_NotifyNeverRestarts ==
    [][\A id \in WatchedIDs :
          NotifyDiscipline(id, IF cfg.NotificationURL # ""
                               THEN <<"container_unhealthy">> ELSE <<>>)]_vars

\* under notify with a notifier, the fourth unhealthy observation has been
\* counted and notified, with no restart call
C23_Witness ==
    \E id \in DOMAIN last :
        /\ cfg.HealthAction = "notify"
        /\ cfg.NotificationURL # ""
        /\ last[id].health = "unhealthy"
        /\ last[id].was = 3
        /\ ~last[id].changed
        /\ states[id].restartAttempts = 4
        /\ last[id].restarts = 0
        /\ last[id].events = <<"container_unhealthy">>

\* C24: the label dockwarden.watch.action selects the health action of its
\* container: a container labelled dockwarden.watch.action=notify is never
\* restarted by the health watcher, even under the global action restart.
C24_LabelledNotifyNeverRestarted ==
    \A id \in DOMAIN last :
        ( /\ "dockwarden.watch.action" \in DOMAIN last[id].labels
          /\ last[id].labels["dockwarden.watch.action"] = "notify" )
            => last[id].restarts = 0

\* C35: every entry has 0 <= restartAttempts <= 5 and gaveUp implies
\* restartAttempts = 5: gaveUp is set only when the attempts have reached the
\* maximum, and the attempts do not change while gaveUp holds, except by a
\* reset that also clears gaveUp (after the reset of a new image the same
\* step may count its own first attempt).
C35_AttemptsBounded ==
    /\ [](\A id \in DOMAIN states :
             /\ states[id].restartAttempts \in 0..MaxRestartAttempts
             /\ states[id].gaveUp => states[id].restartAttempts = MaxRestartAttempts)
    /\ [][\A id \in DOMAIN states \cap DOMAIN states' :
             /\ ~states[id].gaveUp /\ states'[id].gaveUp =>
                   /\ states[id].restartAttempts = MaxRestartAttempts
                   /\ states'[id].restartAttempts = MaxRestartAttempts
             /\ states[id].gaveUp =>
                   \/ states'[id].gaveUp
                        /\ states'[id].restartAttempts = states[id].restartAttempts
                   \/ /\ ~states'[id].gaveUp
                      /\ states'[id].restartAttempts = 0
                   \/ /\ ~states'[id].gaveUp
                      /\ states'[id].lastImageID # states[id].lastImageID
                      /\ states'[id].restartAttempts = 1]_vars

\* an entry that has given up was handled in a tick that saw the container
\* healthy, and kept its five attempts
C35_Witness ==
    \E id \in DOMAIN states :
        /\ states[id].gaveUp
        /\ states[id].restartAttempts = MaxRestartAttempts
        /\ last[id].health = "healthy"
        /\ last[id].was = MaxRestartAttempts
        /\ ~last[id].changed

\* C39: container_gave_up is emitted at most once per give-up episode: the
\* step that emits it is the one that takes the entry from not given up to
\* GaveUp; a tick that finds the entry given up, its image unchanged, emits
\* neither container_gave_up nor container_unhealthy and issues no restart;
\* and an entry leaves GaveUp only by a reset (ResetContainer, or a tick that
\* sees another image id), so between two resets it enters GaveUp at most once.
C39_GaveUpOncePerEpisode ==
    /\ [](\A id \in DOMAIN last :
             /\ (last[id].gaveUp /\ ~last[id].changed) =>
                   last[id].events = <<>> /\ last[id].restarts = 0
             /\ "container_gave_up" \in Range(last[id].events) =>
                   /\ last[id].events = <<"container_gave_up">>
                   /\ ~last[id].gaveUp /\ ~last[id].changed
                   /\ last[id].was = MaxRestartAttempts
                   /\ last[id].health = "unhealthy")
    /\ [][\A id \in DOMAIN states \cap DOMAIN states' :
             /\ (states[id].gaveUp /\ ~states'[id].gaveUp) =>
                   /\ states'[id].lastImageID # states[id].lastImageID
                   /\ states'[id].restartAttempts \in {0, 1}
             /\ (~states[id].gaveUp /\ states'[id].gaveUp) =>
                   /\ ~last'[id].gaveUp
                   /\ last'[id].events = Notify("container_gave_up")
             /\ (states[id].gaveUp /\ states'[id].gaveUp) =>
                   \/ last'[id] = last[id]
                   \/ last'[id].gaveUp /\ last'[id].events = <<>>]_vars

\* with a notifier, an entry that has given up was found given up by a later
\* tick that saw the container unhealthy and emitted nothing
C39_Witness ==
    \E id \in DOMAIN states :
        /\ notifierSet
        /\ states[id].gaveUp
        /\ last[id].gaveUp
        /\ ~last[id].changed
        /\ last[id].health = "unhealthy"
        /\ last[id].events = <<>>

\* C30: a health tick that observes a container with health none (no health
\* check, empty status) or starting makes no transition: restartAttempts and
\* gaveUp of its entry stay as they were (after the reset a new image
\* causes); attempts is reset to 0 only when the observed health is healthy.
C30_NoneOrStartingNoTransition ==
    [][\A id \in WatchedIDs :
          TickProcessed(id) =>
            /\ last'[id].health \in {"", "starting"} =>
                  /\ states'[id].restartAttempts = EntryHandled(id).restartAttempts
                  /\ states'[id].gaveUp = EntryHandled(id).gaveUp
            /\ states'[id].restartAttempts < EntryHandled(id).restartAttempts =>
                  last'[id].health = "healthy"]_vars

(***************************************************************************)
(* Claims on the watcher across a recreate (SpecRecreate).                 *)
(***************************************************************************)
\* the ids whose entry this step creates: their first observation
FirstObserved == {id \in DOMAIN states' : id \notin DOMAIN states}

\* C16: after a successful recreate the watcher state of the new id starts in
\* Nominal: the first tick that observes the new id finds attempts = 0 and
\* gaveUp = false before its transition (so it sees no image change, leaves
\* gaveUp false and counts at most the one attempt of that tick), whatever
\* the state of the old id's entry was.
C16_NewIdStartsNominal ==
    [][\A id \in FirstObserved :
          /\ last'[id].was = 0
          /\ ~last'[id].changed
          /\ ~states'[id].gaveUp
          /\ states'[id].restartAttempts =
                IF last'[id].health = "unhealthy"
                   /\ cfg.HealthAction \in {"restart", "notify"}
                THEN 1 ELSE 0]_vars

\* C16 witness: the entry of the old id is in GaveUp with all attempts used,
\* and the first tick on the new id has restarted the container once
C16_Witness ==
    /\ CurrentID > 1
    /\ (CurrentID - 1) \in DOMAIN states
    /\ states[CurrentID - 1].gaveUp
    /\ states[CurrentID - 1].restartAttempts = MaxRestartAttempts
    /\ CurrentID \in DOMAIN states
    /\ states[CurrentID].restartAttempts = 1
    /\ last[CurrentID].restarts = 1

(***************************************************************************)
(* Claims on one update cycle (SpecUpdate).                                *)
(***************************************************************************)
\* the references of the model that isPinnedTag takes for pinned
PinnedRefs == {ref \in ImageRefs : isPinnedTag(ImageTable[ref])}

\* no engine call of the cycle has returned an error so far
AllCallsSucceeded ==
    /\ faults = 0
    /\ \A id \in DOMAIN workers :
         \A i \in DOMAIN workers[id].calls : workers[id].calls[i].ok

\* the container the worker was started for has been replaced by a new one
Recreated(w) == w.newID \in DOMAIN ctrs /\ w.ctr.ID \notin DOMAIN ctrs

\* C7: in a cycle with no-pull off, monitor-only off and every engine call
\* succeeding, every managed, update-enabled container on a non-pinned
\* reference whose upstream image differed from the local one at cycle start
\* is recreated in that cycle, however many containers share the reference
\* and however the workers interleave.
C7_EveryStaleContainerRecreated ==
    \A id \in DOMAIN workers :
        ( /\ ~cfg.NoPull /\ ~cfg.MonitorOnly
          /\ AllCallsSucceeded
          /\ workers[id].stale
          /\ workers[id].ctr.Image \notin PinnedRefs
          /\ workers[id].pc = "done" )
        => workers[id].result.Updated /\ Recreated(workers[id])

\* when the cycle listed the worker's container, the local image of its
\* reference was the registry's and the container ran another one: an earlier
\* cycle has pulled the image and left the container
BehindLocalImage(w) ==
    /\ ~w.stale
    /\ w.ctr.ImageID # ImageIDOf(w.ctr.Image, upstream[w.ctr.Image])

\* C34: if a cycle pulled a newer image for a container and did not recreate
\* it (the recreate failed, or monitor-only was on), a later cycle with every
\* engine call succeeding and monitor-only off recreates it, without a
\* further upstream change.
C34_PulledNotRecreatedCatchesUp ==
    \A id \in DOMAIN workers :
        ( /\ ~cfg.NoPull /\ ~cfg.MonitorOnly
          /\ AllCallsSucceeded
          /\ BehindLocalImage(workers[id])
          /\ workers[id].ctr.Image \notin PinnedRefs
          /\ workers[id].pc = "done" )
        => workers[id].result.Updated /\ Recreated(workers[id])

\* the results the cycle has collected for a container
ResultsOf(id) == {i \in DOMAIN results : results[i].ContainerID = id}

Recreating ==
    {id \in DOMAIN workers :
        workers[id].pc \in {"stop", "remove", "create", "start"}}

\* C9: the containers whose update protocol is executing at one time are at
\* most 5, and at most 1 under rolling restart; under rolling restart with
\* three updatable containers at most one recreate is in flight and each of
\* the three is processed exactly once.
C9_WorkerPoolBounded ==
    /\ Cardinality(Holders) <= 5
    /\ cfg.RollingRestart => Cardinality(Holders) <= 1
    /\ (cfg.RollingRestart /\ Cardinality(DOMAIN workers) = 3) =>
          /\ Cardinality(Recreating) <= 1
          /\ \A id \in DOMAIN workers :
                Cardinality(ResultsOf(id)) = IF workers[id].pc = "done" THEN 1 ELSE 0
          /\ phase = "done" => Len(results) = 3

\* C9 witness: a rolling cycle over three updatable containers has ended with
\* all three recreated
C9_Witness ==
    /\ cfg.RollingRestart
    /\ phase = "done"
    /\ Cardinality(DOMAIN workers) = 3
    /\ \A id \in DOMAIN workers : workers[id].result.Updated /\ Recreated(workers[id])

\* the engine calls the order of C10 is about
ProtocolCalls ==
    {"digest", "pull", "stop", "remove", "create", "start", "removeImage"}

\* the order of C10, with the stop or without it
ProtocolOrder(withStop) ==
    <<"digest", "pull", "digest">> \o (IF withStop THEN <<"stop">> ELSE <<>>)
        \o <<"remove", "create", "start", "removeImage">>

IsPrefix(p, q) == Len(p) <= Len(q) /\ \A i \in DOMAIN p : p[i] = q[i]

\* the protocol calls of a worker's log, in order
ProtocolLog(w) ==
    LET Listed(c) == c.call \in ProtocolCalls
    IN  SelectSeq(w.calls, Listed)

\* C10: the digest, pull, stop, remove, create, start and removeImage calls
\* issued for a container in one update step are, in order, a prefix of
\* digest, pull, digest, stop (only if the container is running), remove,
\* create, start, removeImage, and a call that fails is the last of them.
C10_CallsFollowProtocolOrder ==
    \A id \in DOMAIN workers :
        LET log == ProtocolLog(workers[id])
        IN  /\ IsPrefix([i \in DOMAIN log |-> log[i].call],
                        ProtocolOrder(workers[id].running))
            /\ \A i \in DOMAIN log : ~log[i].ok => i = Len(log)

\* C10 witness: one container went through the whole order, stop included,
\* while the pull for another failed and was its last call
C10_Witness ==
    \E a, b \in DOMAIN workers :
        /\ Len(ProtocolLog(workers[a])) = Len(ProtocolOrder(TRUE))
        /\ workers[b].pc = "done"
        /\ Len(workers[b].calls) = 2
        /\ ~workers[b].calls[2].ok

\* the containers a cycle listed and started a worker for are as it listed them
ListedContainersUntouched ==
    \A id \in DOMAIN workers :
        /\ id \in DOMAIN ctrs
        /\ APIContainer(id).ImageID = workers[id].ctr.ImageID
        /\ APIContainer(id).State = workers[id].ctr.State

\* C11: a cycle under monitor-only never mutates engine state: the containers,
\* their ids and states, and the local image store (the digest of every image
\* reference) stay as they were before the cycle.
C11_MonitorOnlyLeavesEngineUntouched ==
    cfg.MonitorOnly =>
        /\ ListedContainersUntouched
        /\ \A ref \in ImageRefs :
              HasImage(ref) /\ GetImageDigest(ref) = RepoDigestOf(ref, 1)

\* when the running cycle listed the containers, the local image of every
\* reference it works on was the registry's
InSync == \A id \in DOMAIN workers : ~workers[id].stale

\* every container the cycle works on is in the engine under the id and with
\* the image id it was listed with, and no container was created
IdsAndImagesKept ==
    \A id \in DOMAIN workers :
        /\ id \in DOMAIN ctrs
        /\ ctrs[id].ImageID = workers[id].ctr.ImageID
        /\ workers[id].newID = 0

StepFailed(w) ==
    \E i \in DOMAIN w.calls :
        /\ ~w.calls[i].ok
        /\ \A j \in 1..(i - 1) : w.calls[j].call # "start"

\* the workers that can take their next step: one inside processContainer does
\* its next call or sends its result, one not yet in takes a free slot
CanStep ==
    {id \in DOMAIN workers :
        \/ workers[id].pc \in {"digest1", "pull", "digest2", "inspect", "stop",
                               "remove", "create", "start", "removeImage",
                               "getContainer", "send"}
        \/ workers[id].pc = "spawned" /\ Cardinality(Holders) < maxConcurrency}

\* C13: a per-container failure never aborts the cycle: when the digest, pull
\* or recreate step fails for one container the cycle goes on (while a worker
\* is unfinished one of them can step), every other update-enabled container
\* of the filtered set is processed to completion with a result of its own,
\* the failing container is counted in failed, and Run returns without error
\* (it returns an error only when the list call failed, before any container
\* was processed).
C13_FailureIsolated ==
    /\ (phase = "running" /\ \E id \in DOMAIN workers : workers[id].pc # "done")
          => CanStep # {}
    /\ phase = "failed" => workers = <<>> /\ faults > 0
    /\ \A id \in DOMAIN workers :
          /\ StepFailed(workers[id]) <=> workers[id].result.Error # ""
          /\ workers[id].result.Updated => workers[id].result.Error = ""
    /\ phase = "done" =>
          /\ \A id \in DOMAIN workers :
                workers[id].pc = "done" /\ Cardinality(ResultsOf(id)) = 1
          /\ Len(results) = Cardinality(DOMAIN workers)
          /\ Summary(results).failed =
                Cardinality({id \in DOMAIN workers : StepFailed(workers[id])})

\* C13 witness: a cycle has returned nil after the recreate of one container
\* failed; the failure is counted and another container was recreated
C13_Witness ==
    /\ phase = "done"
    /\ Summary(results).failed = 1
    /\ Summary(results).updated >= 1
    /\ \E a, b \in DOMAIN workers :
         /\ StepFailed(workers[a])
         /\ Len(workers[a].calls) > 3
         /\ Recreated(workers[b])
         /\ workers[b].result.Updated

\* the ids of the containers processContainersConcurrently starts a goroutine
\* for: those of its input with updates not disabled by label
UpdateEnabledIDs == {c.ID : c \in {d \in Range(cycle.filtered) : UpdateEnabled(d)}}

\* C37: processContainersConcurrently always terminates when every engine
\* call returns: no goroutine waits forever for the semaphore or the result
\* channel, the channel is closed once, after all goroutines finished, and the
\* returned list holds exactly one result for each update-enabled input
\* container, for any number of containers including zero.
C37_ConcurrentCycleTerminates ==
    /\ [](\A id \in DOMAIN workers :
             workers[id].pc = "send" => Len(InChannel) < ChannelCapacity)
    /\ [](phase \in {"running", "done"} =>
             /\ DOMAIN workers = UpdateEnabledIDs
             /\ \A id \in DOMAIN workers :
                   Cardinality(ResultsOf(id)) = IF workers[id].pc = "done" THEN 1 ELSE 0
             /\ Len(results) <= Cardinality(UpdateEnabledIDs))
    /\ [](phase = "done" => Len(results) = Cardinality(UpdateEnabledIDs))
    /\ [][phase = "running" /\ phase' = "done" =>
             /\ \A id \in DOMAIN workers : workers[id].pc = "done"
             /\ results' = results]_vars
    /\ (phase = "running") ~> (phase = "done")

\* a cycle under rolling restart has returned one result for each of two
\* containers, after one goroutine had to wait for the semaphore and one
\* engine call failed
C37_Witness ==
    /\ phase = "done"
    /\ cfg.RollingRestart
    /\ Cardinality(UpdateEnabledIDs) = 2
    /\ Len(results) = 2
    /\ faults > 0
    /\ \E i \in DOMAIN results : results[i].Error # ""

\* the name of the container this process runs in, which the operator would
\* give as self-identity; config.Config has no field that carries it
SelfName == <<"a">>

\* C14: the container whose name matches the configured self-identity is
\* never in the updater's filtered set and receives no pull and no recreate
\* (stop, remove, create, start) call in any cycle, whatever the registry
\* has published.
C14_SelfNeverProcessed ==
    /\ \A ctr \in Range(filterContainers(
                         InListOrder(ListContainers(cfg.IncludeStopped)))) :
          ctr.Name # SelfName
    /\ \A id \in DOMAIN workers :
          workers[id].ctr.Name = SelfName =>
              \A i \in DOMAIN workers[id].calls :
                  workers[id].calls[i].call \notin
                      {"pull", "stop", "remove", "create", "start"}

\* the workers whose RecreateContainer has returned the new id
RecreateReturned ==
    {id \in DOMAIN workers :
        /\ workers[id].pc \in {"removeImage", "getContainer", "send", "done"}
        /\ workers[id].newID \in DOMAIN ctrs
        /\ \E i \in DOMAIN workers[id].calls :
              workers[id].calls[i] = [call |-> "start", ok |-> TRUE]}

\* C15: a recreate that succeeds leaves the new container attached to every
\* network the old container was attached to at inspect time, with the same
\* aliases per network (and without the old endpoint's MAC address copied:
\* the create request carries no endpoint settings at all).
C15_NetworksReattached ==
    \A id \in RecreateReturned :
        LET new == ctrs[workers[id].newID].Networks
            old == workers[id].networks
        IN  /\ DOMAIN old \subseteq DOMAIN new
            /\ \A n \in DOMAIN old : new[n].Aliases = old[n].Aliases

\* C17: every successful recreate of the update cycle is followed, within the
\* same per-container step, by a reset of the health entry of that container
\* and by exactly one container_updated event that carries the old and the
\* new digest.
C17_RecreateResetsAndNotifies ==
    \A id \in DOMAIN workers :
        (workers[id].pc = "done" /\ Recreated(workers[id])
            /\ workers[id].result.Updated) =>
            /\ Len(workers[id].events) = 1
            /\ workers[id].events[1].Type = "container_updated"
            /\ id \in DOMAIN states => states[id] = resetState(states[id])

\* the engine calls of the given names the workers of the cycle have issued
Issued(names) ==
    { p \in UNION { {<<id, i>> : i \in DOMAIN workers[id].calls} :
                      id \in DOMAIN workers } :
        workers[p[1]].calls[p[2]].call \in names }

\* C25: with no-restart set an update cycle only pulls images: no stop,
\* remove, create or start call is issued for any container, whatever the
\* registry has published.
C25_NoRestartOnlyPulls ==
    cfg.NoRestart => Issued({"stop", "remove", "create", "start"}) = {}

\* C26: the operation mode selects which loops run: in mode watch no pull and
\* no recreate call is ever issued, in mode update no health restart is ever
\* issued, in mode monitor no mutating engine call is issued at all.
C26_ModeSelectsLoops ==
    /\ cfg.Mode = "watch" =>
          Issued({"pull", "stop", "remove", "create", "start"}) = {}
    /\ cfg.Mode = "update" =>
          \A id \in DOMAIN last : last[id].restarts = 0
    /\ cfg.Mode = "monitor" =>
          /\ Issued({"pull", "stop", "remove", "create", "start", "removeImage"}) = {}
          /\ \A id \in DOMAIN last : last[id].restarts = 0

\* the index of the call of RecreateContainer that failed for w, if any: a
\* failed inspect, stop, remove, create or start before any start succeeded
\* (the inspect after the start is processContainer's GetContainer)
RecreateFailedAt(w) ==
    { i \in DOMAIN w.calls :
        /\ ~w.calls[i].ok
        /\ w.calls[i].call \in {"inspect", "stop", "remove", "create", "start"}
        /\ \A j \in 1..(i - 1) : w.calls[j].call # "start" }

\* the names of the calls w has issued
CallsOf(w) == {w.calls[i].call : i \in DOMAIN w.calls}

\* the containers of the engine that bear a name
Named(name) == {i \in DOMAIN ctrs : TrimPrefix(ctrs[i].Name, <<"/">>) = name}

\* C27: recreate error handling: if inspect or stop fails the container is
\* not removed and nothing is created; if remove fails nothing is created; if
\* create or start fails after the removal there is no rollback and no
\* further engine call; in every case the update step reports the failure
\* and issues no removeImage.
C27_RecreateErrorHandling ==
    \A id \in DOMAIN workers :
        LET w == workers[id]
        IN  \A i \in RecreateFailedAt(w) :
              /\ i = Len(w.calls)
              /\ w.pc \in {"send", "done"}
              /\ w.result.Error = "update"
              /\ ~w.result.Updated
              /\ "removeImage" \notin CallsOf(w)
              /\ w.calls[i].call \in {"inspect", "stop"} =>
                    /\ CallsOf(w) \cap {"remove", "create", "start"} = {}
                    /\ w.ctr.ID \in DOMAIN ctrs
                    /\ w.newID = 0
              /\ w.calls[i].call = "remove" =>
                    /\ CallsOf(w) \cap {"create", "start"} = {}
                    /\ w.newID = 0
              /\ w.calls[i].call = "create" =>
                    /\ w.ctr.ID \notin DOMAIN ctrs
                    /\ w.newID = 0
                    /\ Named(w.name) = {}
              /\ w.calls[i].call = "start" =>
                    /\ w.ctr.ID \notin DOMAIN ctrs
                    /\ Named(w.name) = {w.newID}
                    /\ ~ctrs[w.newID].Running

\* the start of the new container has failed and the goroutine has sent its
\* result: the old container is gone, the new one is not running
C27_Witness ==
    \E id \in DOMAIN workers :
        LET w == workers[id]
        IN  /\ w.pc = "done"
            /\ \E i \in RecreateFailedAt(w) : w.calls[i].call = "start"
            /\ w.ctr.ID \notin DOMAIN ctrs
            /\ w.result.Error = "update"
            /\ phase = "done"

\* C28: a successful recreate preserves identity: afterwards exactly one
\* container bears the original de-slashed name, it has a new id, it was
\* created from the captured config and host config and is started, the old
\* id no longer exists, and the removal was issued with remove-volumes false
\* whatever the remove-volumes configuration is.
C28_RecreatePreservesIdentity ==
    \A id \in RecreateReturned :
        LET w   == workers[id]
            new == ctrs[w.newID]
        IN  /\ w.name = w.ctr.Name
            /\ Named(w.name) = {w.newID}
            /\ w.newID # w.ctr.ID
            /\ w.newID \notin {c.ID : c \in Range(cycle.containers)}
            /\ w.ctr.ID \notin DOMAIN ctrs
            /\ new.Running
            /\ new.Image = w.config.Image /\ w.config.Image = w.ctr.Image
            /\ new.Labels = w.config.Labels /\ w.config.Labels = w.ctr.Labels
            /\ (new.Health # "") = w.config.Healthcheck
            /\ new.NetworkMode = w.hostConfig.NetworkMode
            /\ w.removeOpts = [RemoveVolumes |-> FALSE, Force |-> TRUE]

\* a recreate has succeeded under a configuration that removes volumes
C28_Witness ==
    \E id \in RecreateReturned :
        /\ cfg.RemoveVolumes
        /\ workers[id].pc = "done"
        /\ workers[id].result.Updated
        /\ ctrs[workers[id].newID].Running

\* C29: removeImage(oldImageID) is issued for a container only when cleanup
\* is enabled, the old image id is non-empty and the recreate succeeded, and
\* always after the new container was started; a failure of removeImage does
\* not turn the container's result into a failure: updated stays true and
\* totalFailed is not incremented.
C29_CleanupAfterStartNeverFails ==
    /\ \A id \in DOMAIN workers :
          LET w == workers[id]
          IN  \A i \in DOMAIN w.calls :
                w.calls[i].call = "removeImage" =>
                  /\ cfg.Cleanup
                  /\ w.ctr.ImageID # NoImageID
                  /\ RecreateFailedAt(w) = {}
                  /\ \E j \in 1..(i - 1) :
                        w.calls[j] = [call |-> "start", ok |-> TRUE]
                  /\ w.newID \in DOMAIN ctrs /\ ctrs[w.newID].Running
                  /\ w.pc \in {"send", "done"} =>
                        w.result.Updated /\ w.result.Error = ""
    /\ ( /\ phase = "done"
          /\ stats.lastRun = 1
          /\ \A i \in DOMAIN results : results[i].Error = "" )
            => stats.totalFailed = 0

\* a cycle has ended whose removeImage call failed: the container counts as
\* updated and nothing as failed
C29_Witness ==
    /\ phase = "done"
    /\ stats.lastRun = 1
    /\ stats.totalFailed = 0
    /\ stats.totalUpdated > 0
    /\ \E id \in DOMAIN workers :
          /\ workers[id].pc = "done"
          /\ workers[id].result.Updated
          /\ \E i \in DOMAIN workers[id].calls :
                workers[id].calls[i] = [call |-> "removeImage", ok |-> FALSE]

(***************************************************************************)
(* Claims on the watcher and the updater on one engine (SpecInterleave).   *)
(***************************************************************************)
\* the snapshots a watcher goroutine handles in this step
SteppedSnapshots == IF pending = {} THEN {} ELSE pending \ pending'

\* the goroutine's restart call named an id the engine no longer has
RestartOfRemoved(c) ==
    /\ last'[c.ID].restarts > 0
    /\ c.ID \notin DOMAIN ctrs

\* the update steps that ran the recreate in a cycle without a failing
\* engine call, and have returned
RecreateRan ==
    {id \in DOMAIN workers :
        /\ workers[id].pc = "done"
        /\ "inspect" \in CallsOf(workers[id])
        /\ faults = 0}

\* C32: for every interleaving of a watcher step for the old id with the
\* updater's recreate: a restart issued for the old id after its removal
\* fails and changes no engine state; a restart between the updater's stop
\* and remove does not prevent the removal; after the recreate exactly one
\* container bears the name, the newly created and started one.
C32_RestartRacesRecreate ==
    [][ /\ \A c \in SteppedSnapshots :
              RestartOfRemoved(c) =>
                 /\ last'[c.ID].failed
                 /\ ctrs' = ctrs /\ images' = images
        /\ \A id \in RecreateRan' :
              LET w == workers'[id]
              IN  /\ w.result.Updated
                  /\ w.ctr.ID \notin DOMAIN ctrs'
                  /\ {i \in DOMAIN ctrs' : TrimPrefix(ctrs'[i].Name, <<"/">>) = w.name}
                        = {w.newID}
                  /\ ctrs'[w.newID].Running ]_vars

\* the old container was restarted between the stop and the removal, was
\* removed while running, a later restart call for its id failed, and the
\* recreate has returned
C32_Witness ==
    \E id \in RecreateRan :
        LET w == workers[id]
        IN  /\ w.removedUp
            /\ "stop" \in CallsOf(w)
            /\ w.ctr.ID \in DOMAIN last
            /\ last[w.ctr.ID].restarts > 0
            /\ last[w.ctr.ID].failed
            /\ errs.restart = 0
            /\ Named(w.name) = {w.newID}

(***************************************************************************)
(* Claims on the watcher's ticks (SpecTicks).                              *)
(***************************************************************************)
\* the ids that have a goroutine of the watcher in flight
InFlightIDs == {c.ID : c \in pending}

\* C38: health ticks do not overlap: a tick starts its goroutines only when
\* every goroutine of the tick before has finished, so at no time are two
\* steps of the watcher for one container id in flight, and while a goroutine
\* is at its step, restart call included, no further tick starts.
C38_TicksDoNotOverlap ==
    /\ [](\A c, d \in pending : c.ID = d.ID => c = d)
    /\ [][pending' \ pending # {} => pending = {}]_vars
    /\ [][pending # {} => pending' \subseteq pending /\ tickRaw' = tickRaw]_vars

\* a tick is running with a goroutine that is about to restart its container,
\* after a tick whose goroutine restarted the same container
C38_Witness ==
    \E c \in pending :
        /\ FullStep(c).restarts > 0
        /\ c.ID \in DOMAIN last
        /\ last[c.ID].restarts > 0
        /\ ~last[c.ID].failed
        /\ Cardinality(InFlightIDs) = 2

\* the attempts the handlers of the step started from
AttemptsHandled(rec) == IF rec.changed THEN 0 ELSE rec.was

\* C40: a restart attempt is counted whether or not the engine's restart call
\* succeeds: a step that issues the call leaves the attempts one higher, also
\* when the call fails (and a failed call changes nothing on the engine); so
\* in a run of unhealthy observations the attempts equal the observations up
\* to five, however many of the calls failed, the sixth observation takes the
\* entry to GaveUp, and an entry in GaveUp gets no further restart call.
C40_FailedRestartCounted ==
    /\ [][\A c \in SteppedSnapshots :
             LET rec == last'[c.ID]
             IN  /\ rec.restarts > 0 =>
                       states'[c.ID].restartAttempts = AttemptsHandled(rec) + 1
                 /\ (rec.restarts > 0 /\ rec.failed) => ctrs' = ctrs
                 /\ (rec.gaveUp /\ ~rec.changed) =>
                       /\ rec.restarts = 0
                       /\ states'[c.ID] = states[c.ID]
                       /\ ctrs' = ctrs]_vars
    /\ [](\A id \in DOMAIN states :
             /\ streak[id] \in 1..MaxRestartAttempts =>
                   states[id].restartAttempts = streak[id] /\ ~states[id].gaveUp
             /\ streak[id] > MaxRestartAttempts =>
                   /\ states[id].gaveUp
                   /\ states[id].restartAttempts = MaxRestartAttempts)

\* every restart call for a container has failed, five in a row in one run of
\* unhealthy observations; the entry has given up and a later tick has left
\* the container alone
C40_Witness ==
    \E id \in DOMAIN states :
        /\ states[id].gaveUp
        /\ streak[id] > MaxRestartAttempts + 1
        /\ last[id].fails = MaxRestartAttempts
        /\ errs.restart = MaxRestartAttempts
        /\ last[id].gaveUp
        /\ last[id].health = "unhealthy"
        /\ last[id].restarts = 0
        /\ ctrs[id].Running

(***************************************************************************)
(* Claims on the watcher's locks (SpecLocksFair).                          *)
(***************************************************************************)
\* the entries whose fields the operation reads or writes where it stands
EntryAccessedBy(op) ==
    IF op[1] = "worker" /\ mu.pc[op] = "process" THEN {op[2]}
    ELSE IF op[1] = "reset" /\ mu.pc[op] = "write" THEN {op[2]}
    ELSE IF op[1] = "stats" /\ mu.pc[op] = "read" THEN {mu.cur}
    ELSE {}

\* C36: the watcher's locking is deadlock-free: for every interleaving of
\* the tick's goroutines, ResetContainer and GetStats every operation
\* eventually acquires its locks and completes, provided engine and
\* notification calls return; and the fields of one entry are never read or
\* written by two operations at the same time.
C36_LocksDeadlockFree ==
    /\ [](\A op1 \in LockOps : \A op2 \in LockOps \ {op1} :
             EntryAccessedBy(op1) \cap EntryAccessedBy(op2) = {})
    /\ \A op \in LockOps : (mu.pc[op] # "idle") ~> (mu.pc[op] = "idle")

\* ResetContainer holds statesMu and waits for the entry a goroutine of the
\* tick works on, while the other goroutine waits in getContainerState and
\* GetStats waits for its read lock
C36_Witness ==
    /\ mu.pc[<<"reset", 1>>] = "lockEntry"
    /\ mu.writer = <<"reset", 1>>
    /\ mu.entry[1] = <<"worker", 1>>
    /\ mu.pc[<<"worker", 2>>] = "lockMap"
    /\ mu.pc[<<"stats", 0>>] = "rblocked"

(***************************************************************************)
(* Claims on pinned references (SpecPinned).                               *)
(***************************************************************************)
\* the workers whose step has decided whether to check the registry
Decided == {id \in DOMAIN workers : workers[id].pc # "spawned"}

\* the step of w skipped the check: it went to its result with no engine call
SkippedCheck(w) == w.calls = <<>> /\ w.pc \in {"send", "done"}

\* C31: an image reference is treated as pinned exactly when it carries a
\* digest (any "@digest" part) or its tag is non-empty and not, in any case,
\* one of the floating set.
C31_PinnedIffDigestOrFixedTag ==
    \A id \in Decided :
        LET ref == workers[id].ctr.Image
        IN  SkippedCheck(workers[id]) <=>
              \/ DigestOf(ref) # <<>>
              \/ TagOf(ref).tag # <<>> /\ ~TagOf(ref).floating

(***************************************************************************)
(* Claims on the updater's filter (SpecFilter).                            *)
(***************************************************************************)
\* s is t with elements left out, the order of the others kept
RECURSIVE IsSubsequence(_, _)
IsSubsequence(s, t) ==
    IF s = <<>> THEN TRUE
    ELSE IF t = <<>> THEN FALSE
    ELSE IF Head(s) = Head(t) THEN IsSubsequence(Tail(s), Tail(t))
    ELSE IsSubsequence(s, Tail(t))

\* the four conditions of the filter, read off the snapshot's fields
Eligible(c) ==
    /\ c.Name \notin cfg.DisableContainers
    /\ cfg.LabelEnable =>
          (cfg.LabelName \in DOMAIN c.Labels /\ c.Labels[cfg.LabelName] = "true")
    /\ cfg.Scope # "" =>
          ("dockwarden.scope" \in DOMAIN c.Labels
              /\ c.Labels["dockwarden.scope"] = cfg.Scope)
    /\ c.State = "running" \/ cfg.IncludeStopped

\* the filter's output is the order-preserving subsequence of the eligible
\* containers of its input
FilterIsExact ==
    /\ IsSubsequence(cycle.filtered, cycle.containers)
    /\ \A i \in DOMAIN cycle.containers :
          cycle.containers[i] \in Range(cycle.filtered)
              <=> Eligible(cycle.containers[i])

\* the ids of the filtered containers that carry dockwarden.update.enable
\* with one of the given values
UpdateLabelled(values) ==
    { c.ID : c \in { x \in Range(cycle.filtered) :
                        /\ "dockwarden.update.enable" \in DOMAIN x.Labels
                        /\ x.Labels["dockwarden.update.enable"] \in values } }

\* the values of dockwarden.update.enable in the model
UpdateLabelValues == {"", "true", "false"}

\* C21 as stated: the updater filter returns the order-preserving subsequence
\* of the containers that pass the disable list, label-enable, scope and
\* running conditions, and every filtered container whose
\* dockwarden.update.enable is set to a value other than "true" gets no
\* goroutine, hence no engine call.
C21_FilterThenDropNotTrue ==
    phase # "idle" =>
        /\ FilterIsExact
        /\ DOMAIN workers =
              {c.ID : c \in Range(cycle.filtered)}
                  \ UpdateLabelled(UpdateLabelValues \ {"true"})

\* C21, amended: as above, but the containers dropped after the filter are
\* those whose dockwarden.update.enable is set to a non-empty value other
\* than "true"; a label set to the empty value leaves updates enabled.
C21_FilterThenDropNonEmptyNotTrue ==
    phase # "idle" =>
        /\ FilterIsExact
        /\ DOMAIN workers =
              {c.ID : c \in Range(cycle.filtered)}
                  \ UpdateLabelled(UpdateLabelValues \ {"true", ""})

\* the filter has dropped a container between two it kept, a disabled name
\* is a prefix of a kept one, and of the kept ones one is dropped for its
\* update label while one with the empty update label got its goroutine
C21_Witness ==
    /\ phase = "running"
    /\ Len(cycle.containers) = 3
    /\ Len(cycle.filtered) = 2
    /\ cycle.filtered[1].ID = 2
    /\ cycle.filtered[2].ID = 3
    /\ cfg.DisableContainers # {}
    /\ UpdateLabelled({"false"}) # {}
    /\ UpdateLabelled({""}) \cap DOMAIN workers # {}

(***************************************************************************)
(* Claims on the supervisor (SpecSupervisor).                              *)
(***************************************************************************)
RECURSIVE SumRuns(_)
\* the Updater.Run invocations in flight over a set of sources
SumRuns(srcs) ==
    IF srcs = {} THEN 0
    ELSE LET src == CHOOSE x \in srcs : TRUE
         IN  InFlight(src) + SumRuns(srcs \ {src})

\* C1: at any time at most one update cycle (Updater.Run) is in flight; an
\* invocation that arrives while a cycle is running (interval tick, cron
\* fire, run-once, API or UI trigger) starts no second concurrent cycle.
C1_SingleFlight == SumRuns(RunSources) <= 1

\* C18: on the termination signal the supervisor stops the scheduler, then
\* the health watcher, and exits only after both have quiesced: when run()
\* returns no update cycle and no health tick is in flight.
C18_ExitAfterQuiescence ==
    sup.main = "exited" =>
        /\ SumRuns(RunSources) = 0
        /\ sup.loop \notin {"tick", "fn"}
        /\ sup.watch # "tick"

\* the callers of Updater.Run that belong to the scheduler
SchedulerSources == {"main", "ticker", "cron"}

\* C19: after Scheduler.Stop() has returned the scheduler starts no new
\* invocation of the scheduled action, in interval mode even if a tick was
\* already taken or pending when Stop was called.
C19_NoRunAfterStop ==
    [][sup.main = "stopped" =>
          \A src \in SchedulerSources :
              Len(sup'.runs[src]) <= Len(sup.runs[src])]_vars

\* no Updater.Run invocation is between its two Add calls
NoRunMidSummary ==
    \A src \in RunSources : \A i \in DOMAIN sup.runs[src] :
        sup.runs[src][i].stage # "added"

\* C20: totalUpdated and totalFailed never decrease, and after any set of
\* completed cycles, concurrent ones included, totalUpdated is the number of
\* results with updated = true and no error, totalFailed the number of
\* results with an error, and no result is counted in both.
C20_CountersMatchResults ==
    /\ [](NoRunMidSummary =>
            /\ stats.totalUpdated = sup.seen.updated
            /\ stats.totalFailed = sup.seen.failed
            /\ stats.totalUpdated + stats.totalFailed <= sup.seen.results)
    /\ [][/\ stats'.totalUpdated >= stats.totalUpdated
          /\ stats'.totalFailed >= stats.totalFailed]_vars

\* C20 witness: two cycles whose summaries overlapped have returned, with
\* updated and failed results between them
C20_Witness ==
    /\ NoRunMidSummary
    /\ sup.overlapped
    /\ sup.summed = MaxSummaries
    /\ stats.totalUpdated >= 1
    /\ stats.totalFailed >= 1
    /\ sup.seen.results > stats.totalUpdated + stats.totalFailed

\* Scheduler.Start has been called with a cron expression
CronMode == ~cfg.RunOnce /\ cfg.Schedule # "" /\ sup.main # "start"

\* Scheduler.Start has been called without a cron expression
IntervalMode == ~cfg.RunOnce /\ cfg.Schedule = "" /\ sup.main # "start"

\* C33: scheduler modes are mutually exclusive: with a cron expression only
\* the cron registration invokes the action and no interval ticker runs;
\* otherwise the action is invoked once on Start, before Start returns, and
\* then once per interval tick, and interval-mode invocations never overlap.
C33_SchedulerModesExclusive ==
    /\ [](CronMode =>
            /\ sup.loop = "none"
            /\ InFlight("main") = 0 /\ InFlight("ticker") = 0)
    /\ [](IntervalMode =>
            /\ InFlight("cron") = 0
            /\ InFlight("main") + InFlight("ticker") <= 1
            /\ (sup.main = "first") = (InFlight("main") = 1)
            /\ sup.main = "first" => sup.loop = "none"
            /\ InFlight("ticker") = 1 => sup.loop = "fn")
    /\ [][~cfg.RunOnce /\ cfg.Schedule = "" =>
            /\ sup.main = "start" /\ sup'.main # "start" =>
                  sup'.main = "first" /\ Len(sup'.runs["main"]) = 1
            /\ sup.main # "serving" /\ sup'.main = "serving" =>
                  sup.main = "first" /\ Len(sup'.runs["main"]) = 0
            /\ Len(sup'.runs["ticker"]) > Len(sup.runs["ticker"]) =>
                  sup.loop = "tick" /\ sup'.loop = "fn"
            /\ sup.loop = "tick" /\ sup'.loop # "tick" =>
                  Len(sup'.runs["ticker"]) = Len(sup.runs["ticker"]) + 1]_vars

\* interval mode: the first invocation has returned and the invocation of a
\* tick is running
C33_Witness ==
    /\ IntervalMode
    /\ sup.main = "serving"
    /\ sup.loop = "fn"
    /\ InFlight("ticker") = 1
    /\ sup.seen.results > 0

====
